---- MODULE Spec2Model ----
(***************************************************************************)
(* Gmail to Slack forwarder: the ingestion pipeline of processEmails, the  *)
(* spreadsheet ledger of processed message ids, the subject classifier and *)
(* the Slack dispatcher, as state machines.                                *)
(*                                                                         *)
(* Spec          processEmails runs, direct ledger calls and migration     *)
(* SpecLedger    markMessageProcessedInSheet calls on an empty ledger      *)
(* SpecClassify  checkMultiplePatterns on every subject / pattern list     *)
(* SpecArchive   processAttachments calls on a Drive folder tree           *)
(* SpecDispatch  sendSlackNotification on every transport behaviour        *)
(* SpecBody      formatEmailBody and the body chunks of one dispatch       *)
(* SpecSteps     one processEmails run, operation by operation, cut off at *)
(*               any point by the execution time limit                     *)
(* SpecOverlap   two processEmails runs that overlap, with no store errors *)
(* SpecBatch     one processEmails run on mailboxes with a reply in a      *)
(*               processed thread and with more threads than are searched  *)
(* SpecFolder    cleanSubjectForFolder on every short subject              *)
(* SpecProps     migration and cleanup of the script property store        *)
(***************************************************************************)
EXTENDS Integers, Sequences, FiniteSets, TLC

VARIABLES
  sheet,          \* data rows of the ProcessedMessages sheet, oldest first
  legacy,         \* PROCESSED_MSG_ keys of the script property store
  clock,          \* wall clock (new Date().getTime())
  pc,             \* "idle" or "running": position of processEmails
  pos,            \* index of the next message of the batch
  processedCount, \* counters of the current run
  errorCount,
  checkedCount,
  threadHasNewMessages,
  labeled,        \* threads carrying the Processed label
  runs,           \* processEmails runs started
  runLog,         \* what the current or last run did on the chat transport (history)
  ops,            \* direct ledger calls made
  last,           \* what the last handler call did (history)
  hist,           \* per message id: deliveries and ledger faults (history)
  cSubject,       \* classifier input: subject
  cPatterns,      \* classifier input: CONFIG.SUBJECT_PATTERNS.PATTERNS
  cMode,          \* classifier input: CONFIG.SUBJECT_PATTERNS.MATCH_MODE
  cResult,        \* classifier output, or NoResult before the call
  drive,          \* Drive: folders under the base folder and the files of each folder
  aClock,         \* wall clock of the archiver (new Date().getTime())
  aOps,           \* processAttachments calls made
  aLast,          \* input and outcome of the last processAttachments call (history)
  dBody,          \* dispatcher input: message.getPlainBody(), a sequence of characters
  dInfo,          \* dispatcher input: the attachment report
  dChoice,        \* dispatcher input: what the chat transport does
  dResult,        \* the delivery calls of sendSlackNotification, or NoDispatch
  step,           \* position inside the message callback and the operations done
                  \* for each message in the current run (SpecSteps)
  mailbox,        \* the threads of the sender in Gmail, newest first
  ov,             \* two overlapping runs: the position of each and the primary
                  \* notifications accepted for each message (SpecOverlap)
  fLast,          \* input and result of the last cleanSubjectForFolder call
                  \* (SpecFolder)
  settings        \* the keys of the script property store other than the
                  \* PROCESSED_MSG_ keys

vars == <<sheet, legacy, clock, pc, pos, processedCount, errorCount, checkedCount,
          threadHasNewMessages, labeled, runs, runLog, ops, last, hist,
          cSubject, cPatterns, cMode, cResult, drive, aClock, aOps, aLast,
          dBody, dInfo, dChoice, dResult, step, mailbox, ov, fLast, settings>>

ledgerVars == <<sheet, legacy, clock>>
runVars == <<pc, pos, processedCount, errorCount, checkedCount, threadHasNewMessages,
             labeled, runs, runLog>>
classifyVars == <<cSubject, cPatterns, cMode, cResult>>
archiveVars == <<drive, aClock, aOps, aLast>>
dispatchVars == <<dBody, dInfo, dChoice, dResult>>
sideVars == <<step, mailbox, ov, fLast, settings>>
partVars == <<archiveVars, dispatchVars, sideVars>>

-----------------------------------------------------------------------------
(* Bounds of the model *)

MaxRuns == 2            \* processEmails runs per behaviour
MaxOps == 1             \* direct ledger calls per behaviour
MaxPatterns == 3        \* length of a pattern list
MaxMarks == 6           \* mark calls per behaviour of SpecLedger
\* SPREADSHEET_CONFIG.MAX_ROWS (10000) and CLEANUP_BATCH_SIZE (1000), scaled down
MAX_ROWS == 1
CLEANUP_BATCH_SIZE == 1
\* the long-body threshold (1000) and chunkSize (3500) of slackNotifier.js, scaled down
LONG_BODY_LENGTH == 2
chunkSize == 3
\* history counters saturate here
CountCap == 2
\* the probe limit (100) of ensureUniqueFilename, scaled down
PROBE_LIMIT == 3
MaxArchiveOps == 2      \* processAttachments calls per behaviour of SpecArchive
MaxAttachments == 2     \* attachments of one message in SpecArchive
MaxBody == 7            \* characters of a plain body in SpecBody
\* CONFIG.BODY_PREVIEW_LENGTH (20000), scaled down
BODY_PREVIEW_LENGTH == 6
\* CONFIG.MAX_EMAILS_PER_RUN (10), scaled down
MAX_EMAILS_PER_RUN == 1
\* the 100 of substring(0, 100) in cleanSubjectForFolder, scaled down
FOLDER_SUBJECT_LENGTH == 3
\* the longest subject handed to cleanSubjectForFolder in SpecFolder
MaxSubject == 4

Min(a, b) == IF a < b THEN a ELSE b

-----------------------------------------------------------------------------
(* PatternClassifier: checkSubjectPattern / checkMultiplePatterns *)

Subjects == {"bukai", "study", "bukai study", "hello"}

\* A member of CONFIG.SUBJECT_PATTERNS.PATTERNS: src is pattern.toString(),
\* accepts the subjects pattern.test() is true on, bad a value whose test() throws.
PatBukai == [src |-> "/bukai/", accepts |-> {"bukai", "bukai study"}, bad |-> FALSE]
PatStudy == [src |-> "/study/", accepts |-> {"study", "bukai study"}, bad |-> FALSE]
PatBad == [src |-> "bad", accepts |-> {}, bad |-> TRUE]
PatternPool == {PatBukai, PatStudy, PatBad}

PatternLists == UNION {[1..n -> PatternPool] : n \in 0..MaxPatterns}
MatchModes == {"any", "all"}

\* A mutant of testPattern: a throwing pattern counts as a match
testPattern_ErrorMatches(pattern, subject) ==
  IF pattern.bad
    THEN [pattern |-> pattern.src, isMatch |-> TRUE, error |-> TRUE]
    ELSE [pattern |-> pattern.src, isMatch |-> subject \in pattern.accepts,
          error |-> FALSE]

\* A mutant of testPattern: the test result is inverted
testPattern_Inverted(pattern, subject) ==
  IF pattern.bad
    THEN [pattern |-> pattern.src, isMatch |-> FALSE, error |-> TRUE]
    ELSE [pattern |-> pattern.src, isMatch |-> subject \notin pattern.accepts,
          error |-> FALSE]

\* try { pattern.test(subject) ... results.push } catch { results.push(isMatch: false) }
testPattern(pattern, subject) ==
  IF pattern.bad
    THEN [pattern |-> pattern.src, isMatch |-> FALSE, error |-> TRUE]
    ELSE [pattern |-> pattern.src, isMatch |-> subject \in pattern.accepts,
          error |-> FALSE]

\* results.find(r => r.isMatch)?.pattern
findMatch(results) ==
  IF \E k \in 1..Len(results) : results[k].isMatch
    THEN results[CHOOSE k \in 1..Len(results) :
                   /\ results[k].isMatch
                   /\ \A j \in 1..(k - 1) : ~results[j].isMatch].pattern
    ELSE "undefined"

\* A mutant of finalResult: 'all' mode decided like 'any' mode
finalResult_AllAsAny(matchMode, results, checkedPatterns) ==
  LET hasMatches == \E k \in 1..Len(results) : results[k].isMatch
  IN [isMatch |-> hasMatches,
      matchedPattern |-> IF hasMatches THEN findMatch(results) ELSE "null",
      checkedPatterns |-> checkedPatterns,
      allResults |-> results,
      matchMode |-> matchMode]

\* the result built after the loop
finalResult(matchMode, results, checkedPatterns) ==
  LET hasMatches == \E k \in 1..Len(results) : results[k].isMatch
      allMatch == \A k \in 1..Len(results) : results[k].isMatch
      finalMatch == IF matchMode = "any" THEN hasMatches ELSE allMatch
  IN [isMatch |-> finalMatch,
      matchedPattern |-> IF finalMatch THEN findMatch(results) ELSE "null",
      checkedPatterns |-> checkedPatterns,
      allResults |-> results,
      matchMode |-> matchMode]

RECURSIVE patternLoop(_, _, _, _, _, _)
\* the for loop over patterns, from index i, with the early return of 'any' mode
patternLoop(subject, patterns, matchMode, i, results, checkedPatterns) ==
  IF i > Len(patterns)
    THEN finalResult(matchMode, results, checkedPatterns)
    ELSE LET r == testPattern(patterns[i], subject)
             checked == Append(checkedPatterns, patterns[i].src)
             pushed == Append(results, r)
         IN IF matchMode = "any" /\ r.isMatch
              THEN [isMatch |-> TRUE,
                    matchedPattern |-> patterns[i].src,
                    checkedPatterns |-> checked,
                    allResults |-> pushed,
                    matchMode |-> matchMode]
              ELSE patternLoop(subject, patterns, matchMode, i + 1, pushed, checked)

checkMultiplePatterns(subject, patterns, matchMode) ==
  patternLoop(subject, patterns, matchMode, 1, <<>>, <<>>)

\* CONFIG.SUBJECT_PATTERNS of the deployed script: two patterns, 'any' mode
ConfigPatterns == <<PatBukai, PatStudy>>
ConfigMatchMode == "any"

\* ENABLE_MULTIPLE_PATTERNS is true: checkSubjectPattern is checkMultiplePatterns
checkSubjectPattern(subject) ==
  checkMultiplePatterns(subject, ConfigPatterns, ConfigMatchMode)

NoResult == [isMatch |-> FALSE, matchedPattern |-> "none", checkedPatterns |-> <<>>,
             allResults |-> <<>>, matchMode |-> "none"]

-----------------------------------------------------------------------------
(* DeduplicationLedger: the ProcessedMessages sheet *)

\* a row of the sheet: column 1 (Message ID) and column 5 (Timestamp)
Row(messageId, timestamp) == [id |-> messageId, ts |-> timestamp]

rowsOf(rows, messageId) == {i \in 1..Len(rows) : rows[i].id = messageId}

\* What the store does to one ledger read:
\*   recreate     the stored spreadsheet id is invalid and no file of that name
\*                exists: getOrCreateTrackingSpreadsheet creates an empty one
\*   openThrows   getOrCreateTrackingSpreadsheet throws
\*   noSheet      getSheetByName returns null
\*   rangeThrows  getRange(...).getValues() throws
ReadFaults == {"none", "recreate", "openThrows", "noSheet", "rangeThrows"}

\* A mutant of isMessageProcessedInSheet: the catch block answers true (fail-closed)
isMessageProcessedInSheet_FailClosed(rows, messageId, f) ==
  IF f = "openThrows"
    THEN [threw |-> FALSE, failed |-> TRUE, value |-> TRUE, rows |-> rows]
    ELSE LET cur == IF f = "recreate" THEN <<>> ELSE rows
         IN IF f = "noSheet"
              THEN [threw |-> FALSE, failed |-> TRUE, value |-> FALSE, rows |-> cur]
              ELSE IF Len(cur) = 0
                     THEN [threw |-> FALSE, failed |-> FALSE, value |-> FALSE, rows |-> cur]
                     ELSE IF f = "rangeThrows"
                            THEN [threw |-> FALSE, failed |-> TRUE, value |-> TRUE,
                                  rows |-> cur]
                            ELSE [threw |-> FALSE, failed |-> FALSE,
                                  value |-> rowsOf(cur, messageId) # {}, rows |-> cur]

\* A mutant of isMessageProcessedInSheet: the id column is never matched
isMessageProcessedInSheet_NeverFound(rows, messageId, f) ==
  [threw |-> FALSE,
   failed |-> IF f \in {"openThrows", "noSheet"} THEN TRUE
              ELSE IF f = "rangeThrows" THEN Len(rows) > 0 ELSE FALSE,
   value |-> FALSE,
   rows |-> IF f = "recreate" THEN <<>> ELSE rows]

\* A mutant of isMessageProcessedInSheet: the range read stops one row short
isMessageProcessedInSheet_SkipsLastRow(rows, messageId, f) ==
  IF f = "openThrows"
    THEN [threw |-> FALSE, failed |-> TRUE, value |-> FALSE, rows |-> rows]
    ELSE LET cur == IF f = "recreate" THEN <<>> ELSE rows
         IN IF f = "noSheet"
              THEN [threw |-> FALSE, failed |-> TRUE, value |-> FALSE, rows |-> cur]
              ELSE IF Len(cur) = 0
                     THEN [threw |-> FALSE, failed |-> FALSE, value |-> FALSE, rows |-> cur]
                     ELSE IF f = "rangeThrows"
                            THEN [threw |-> FALSE, failed |-> TRUE, value |-> FALSE,
                                  rows |-> cur]
                            ELSE [threw |-> FALSE, failed |-> FALSE,
                                  value |-> rowsOf(SubSeq(cur, 1, Len(cur) - 1),
                                                   messageId) # {},
                                  rows |-> cur]

\* isMessageProcessedInSheet(messageId) on the sheet `rows` under store fault f:
\* what it returns (or that it threw), whether the read failed, and the rows the
\* store holds afterwards
isMessageProcessedInSheet(rows, messageId, f) ==
  IF f = "openThrows"
    THEN [threw |-> FALSE, failed |-> TRUE, value |-> FALSE, rows |-> rows]  \* catch
    ELSE LET cur == IF f = "recreate" THEN <<>> ELSE rows
         IN IF f = "noSheet"
              THEN [threw |-> FALSE, failed |-> TRUE, value |-> FALSE, rows |-> cur]
              ELSE IF Len(cur) = 0                                   \* lastRow <= 1
                     THEN [threw |-> FALSE, failed |-> FALSE, value |-> FALSE, rows |-> cur]
                     ELSE IF f = "rangeThrows"
                            THEN [threw |-> FALSE, failed |-> TRUE, value |-> FALSE,
                                  rows |-> cur]                      \* catch
                            ELSE [threw |-> FALSE, failed |-> FALSE,
                                  value |-> rowsOf(cur, messageId) # {},  \* includes
                                  rows |-> cur]

\* A mutant of isMessageAlreadyProcessed: the answer of the sheet is dropped
isMessageAlreadyProcessed_AlwaysFalse(rows, messageId, f, idThrows) ==
  IF idThrows
    THEN [threw |-> FALSE, failed |-> FALSE, value |-> FALSE, rows |-> rows,
          inSheet |-> "notCalled"]
    ELSE LET r == isMessageProcessedInSheet(rows, messageId, f)
         IN [threw |-> FALSE, failed |-> r.failed, value |-> FALSE, rows |-> r.rows,
             inSheet |-> IF r.threw THEN "threw"
                         ELSE IF r.value THEN "true" ELSE "false"]

\* isMessageAlreadyProcessed(message): idThrows is message.getId() throwing; its own
\* catch answers false
isMessageAlreadyProcessed(rows, messageId, f, idThrows) ==
  IF idThrows
    THEN [threw |-> FALSE, failed |-> FALSE, value |-> FALSE, rows |-> rows,
          inSheet |-> "notCalled"]
    ELSE LET r == isMessageProcessedInSheet(rows, messageId, f)
         IN IF r.threw
              THEN [threw |-> FALSE, failed |-> r.failed, value |-> FALSE,
                    rows |-> r.rows, inSheet |-> "threw"]
              ELSE [threw |-> FALSE, failed |-> r.failed, value |-> r.value,
                    rows |-> r.rows, inSheet |-> IF r.value THEN "true" ELSE "false"]

\* sheet.deleteRows(rowPosition, howMany): sheet row 1 is the header, data row i is
\* sheet row i + 1
deleteRows(rows, rowPosition, howMany) ==
  LET first == rowPosition - 1
  IN SubSeq(rows, 1, first - 1) \o SubSeq(rows, first + howMany, Len(rows))

CleanupFaults == {"none", "noSheet", "throws"}

\* A mutant of cleanupOldEntriesInSheet: nothing is ever deleted
cleanupOldEntriesInSheet_Never(rows, cf) == rows

\* cleanupOldEntriesInSheet() under store fault cf: the rows afterwards
cleanupOldEntriesInSheet(rows, cf) ==
  LET lastRow == Len(rows) + 1
      rowsToDelete == lastRow - MAX_ROWS - 1      \* -1 for header
  IN IF cf # "none" THEN rows                    \* !sheet, or caught
     ELSE IF rowsToDelete <= 0 THEN rows
     ELSE deleteRows(rows, 2, Min(rowsToDelete, CLEANUP_BATCH_SIZE))

\* What the store does to one ledger write: fieldThrows is message.getId() (or
\* getSubject, getFrom) throwing, appendThrows is sheet.appendRow throwing
MarkFaults == {"none", "recreate", "fieldThrows", "openThrows", "noSheet", "appendThrows"}

\* A mutant of markMessageProcessedInSheet: a failed write is rethrown
markMessageProcessedInSheet_Rethrows(rows, messageId, now, f, cf) ==
  IF f \in {"fieldThrows", "openThrows", "noSheet", "appendThrows"}
    THEN [threw |-> TRUE, appended |-> FALSE, rows |-> rows, triggered |-> FALSE,
          removed |-> 0, cleanupFailed |-> FALSE]
    ELSE LET cur == IF f = "recreate" THEN <<>> ELSE rows
             added == Append(cur, Row(messageId, now))
             rowCount == Len(added) + 1
             triggered == rowCount > MAX_ROWS + CLEANUP_BATCH_SIZE
             left == IF triggered THEN cleanupOldEntriesInSheet(added, cf) ELSE added
         IN [threw |-> FALSE, appended |-> TRUE, rows |-> left,
             triggered |-> triggered, removed |-> Len(added) - Len(left),
             cleanupFailed |-> triggered /\ cf # "none"]

\* A mutant of markMessageProcessedInSheet: the cleanup runs before the append
markMessageProcessedInSheet_CleanupFirst(rows, messageId, now, f, cf) ==
  IF f \in {"fieldThrows", "openThrows", "noSheet", "appendThrows"}
    THEN [threw |-> FALSE, appended |-> FALSE, rows |-> rows, triggered |-> FALSE,
          removed |-> 0, cleanupFailed |-> FALSE]
    ELSE LET cur == IF f = "recreate" THEN <<>> ELSE rows
             rowCount == Len(cur) + 1
             triggered == rowCount > MAX_ROWS + CLEANUP_BATCH_SIZE
             left == IF triggered THEN cleanupOldEntriesInSheet(cur, cf) ELSE cur
         IN [threw |-> FALSE, appended |-> TRUE,
             rows |-> Append(left, Row(messageId, now)),
             triggered |-> triggered, removed |-> Len(cur) - Len(left),
             cleanupFailed |-> triggered /\ cf # "none"]

\* markMessageProcessedInSheet(message) at time `now` under store faults f (the
\* write) and cf (the cleanup): whether it threw, whether the row was appended,
\* and the rows afterwards
markMessageProcessedInSheet(rows, messageId, now, f, cf) ==
  IF f \in {"fieldThrows", "openThrows", "noSheet", "appendThrows"}
    THEN [threw |-> FALSE, appended |-> FALSE, rows |-> rows,     \* catch: don't throw
          triggered |-> FALSE, removed |-> 0, cleanupFailed |-> FALSE]
    ELSE LET cur == IF f = "recreate" THEN <<>> ELSE rows
             added == Append(cur, Row(messageId, now))             \* appendRow
             rowCount == Len(added) + 1                            \* getLastRow
             triggered == rowCount > MAX_ROWS + CLEANUP_BATCH_SIZE
             left == IF triggered THEN cleanupOldEntriesInSheet(added, cf) ELSE added
         IN [threw |-> FALSE, appended |-> TRUE, rows |-> left,
             triggered |-> triggered,           \* cleanupOldEntriesInSheet was called
             removed |-> Len(added) - Len(left),
             cleanupFailed |-> triggered /\ cf # "none"]       \* !sheet, or its catch

\* the cleanup faults worth choosing for a write: one, unless the cleanup will run
CleanupChoices(rows, f) ==
  IF f \in {"none", "recreate"}
     /\ (IF f = "recreate" THEN 0 ELSE Len(rows)) + 2 > MAX_ROWS + CLEANUP_BATCH_SIZE
    THEN CleanupFaults
    ELSE {"none"}

\* what a function hands back: <<v>> for `return v`, Undefined for a bare return
\* and for running off the end of the body
Undefined == <<>>

\* migrateProcessedMessagesToSheet(): props is the property store's PROCESSED_MSG_
\* entries in key order; f = "throws" is the spreadsheet or the range write failing
migrateProcessedMessagesToSheet(rows, props, f) ==
  IF Len(props) = 0
    THEN [threw |-> FALSE, rows |-> rows, returned |-> Undefined]  \* nothing to migrate
    ELSE IF f # "none"
           THEN [threw |-> TRUE, rows |-> rows, returned |-> Undefined]  \* throw error
           ELSE [threw |-> FALSE,
                 rows |-> rows \o [i \in 1..Len(props) |-> Row(props[i].id, props[i].ts)],
                 returned |-> Undefined]

\* the keys of the script properties the forwarder reads its configuration from
SettingKeys == {"SLACK_WEBHOOK_URL", "SENDER_EMAIL", "SLACK_CHANNEL", "DRIVE_FOLDER_ID",
                "TRACKING_SPREADSHEET_ID"}

\* getProperties(): the PROCESSED_MSG_ entries and the other keys as one list of
\* properties; a key is its PROCESSED_MSG_ prefix, if it has one, and the rest
properties(props, keys) ==
  LET order == <<"DRIVE_FOLDER_ID", "SENDER_EMAIL", "SLACK_CHANNEL", "SLACK_WEBHOOK_URL",
                 "TRACKING_SPREADSHEET_ID">>
      present(k) == k \in keys
      others == SelectSeq(order, present)
  IN [i \in 1..Len(props) |-> [prefix |-> "PROCESSED_MSG_", rest |-> props[i].id,
                               value |-> props[i].ts]]
     \o [i \in 1..Len(others) |-> [prefix |-> "", rest |-> others[i], value |-> 0]]

\* key.startsWith('PROCESSED_MSG_')
startsWithProcessed(property) == property.prefix = "PROCESSED_MSG_"

\* the properties left when those at the positions of `gone` are deleted
without(store, gone) ==
  LET kept(i) == i \notin gone
      at == SelectSeq([i \in 1..Len(store) |-> i], kept)
  IN [k \in 1..Len(at) |-> store[at[k]]]

\* cleanupProcessedMessagesFromProperties with the test of the key left out
cleanupProcessedMessagesFromProperties_EveryKey(store, failAt) ==
  LET deleted == {i \in 1..Len(store) : failAt = 0 \/ i < failAt}
  IN [store |-> without(store, deleted), failed |-> failAt # 0,
      returned |-> IF failAt = 0 THEN <<Len(store)>> ELSE <<0>>]

\* cleanupProcessedMessagesFromProperties(): failAt = 0 when the property service
\* works, k when it throws at the k-th PROCESSED_MSG_ key (getProperties throwing
\* is the case k = 1): the keys before it are deleted and the catch returns 0
cleanupProcessedMessagesFromProperties(store, failAt) ==
  LET hits == {i \in 1..Len(store) : startsWithProcessed(store[i])}
      nth(i) == Cardinality({j \in hits : j <= i})
      deleted == {i \in hits : failAt = 0 \/ nth(i) < failAt}
  IN [store |-> without(store, deleted), failed |-> failAt # 0,
      returned |-> IF failAt = 0 THEN <<Cardinality(deleted)>> ELSE <<0>>]

-----------------------------------------------------------------------------
(* The mailbox: the threads of the sender do not change during a behaviour *)

\* the threads of the sender, each a list of message ids
Threads == << <<"m1", "m2">>, <<"m3">> >>

\* the message ids of every mailbox of the model
MessageIds == {"m1", "m2", "m3", "m4"}

RECURSIVE flatten(_)
flatten(ts) == IF ts = <<>> THEN <<>> ELSE Head(ts) \o flatten(Tail(ts))

RECURSIVE unlabeled(_, _, _)
unlabeled(all, labels, t) ==
  IF t > Len(all) THEN <<>>
  ELSE (IF t \in labels THEN <<>> ELSE <<all[t]>>) \o unlabeled(all, labels, t + 1)

\* A mutant of the search: the query leaves out the threads that carry the label
search_UnlabeledOnly(all, labels) ==
  LET rest == unlabeled(all, labels, 1)
  IN SubSeq(rest, 1, Min(Len(rest), MAX_EMAILS_PER_RUN * 3))

\* GmailApp.search(`from:${CONFIG.SENDER_EMAIL}`, 0, CONFIG.MAX_EMAILS_PER_RUN * 3):
\* the first threads of the sender, whatever their labels
search(all, labels) == SubSeq(all, 1, Min(Len(all), MAX_EMAILS_PER_RUN * 3))

\* the threads the run works on
threads == search(mailbox, labeled)

\* the messages in the order the two nested forEach loops visit them
Batch == flatten(threads)

\* the thread of the i-th message of the batch, and whether it is that thread's
\* first / last message
threadOf(i) ==
  CHOOSE t \in 1..Len(threads) :
    LET before == Len(flatten(SubSeq(threads, 1, t - 1)))
    IN before < i /\ i <= before + Len(threads[t])
firstOfThread(i) == IF i = 1 THEN TRUE ELSE threadOf(i - 1) # threadOf(i)
lastOfThread(i) == IF i = Len(Batch) THEN TRUE ELSE threadOf(i + 1) # threadOf(i)

\* a message: getSubject(), the length of formatEmailBody(getPlainBody()),
\* the names of getAttachments()
Message(m) ==
  CASE m = "m1" -> [subject |-> "bukai", bodyLength |-> 4, attachments |-> <<"a.pdf">>]
    [] m = "m2" -> [subject |-> "hello", bodyLength |-> 1, attachments |-> <<>>]
    [] m = "m3" -> [subject |-> "hello", bodyLength |-> 1, attachments |-> <<>>]
    [] m = "m4" -> [subject |-> "bukai", bodyLength |-> 1,
                    attachments |-> <<"b.pdf", "c.txt">>]
    [] OTHER -> [subject |-> "hello", bodyLength |-> 0, attachments |-> <<>>]

\* what reading the message object does: isInTrash() is true, or the named accessor
\* throws
MsgFaults == {"none", "inTrash", "inTrashThrows", "idThrows", "subjectThrows",
              "bodyThrows"}

-----------------------------------------------------------------------------
(* AttachmentArchiver, as processMessage sees it *)

\* af.folder = "throws": DRIVE_FOLDER_ID is missing or getFolderById throws;
\* af.folder = "nameThrows": so, and attachment.getName() throws in processMessage;
\* af.failed: the attachments whose saveAttachmentToDrive throws
ArchiveChoices(attachments) ==
  IF Len(attachments) = 0
    THEN {[folder |-> "ok", failed |-> {}]}
    ELSE {[folder |-> "throws", failed |-> {}], [folder |-> "nameThrows", failed |-> {}]}
         \cup {[folder |-> "ok", failed |-> F] : F \in SUBSET (1..Len(attachments))}

\* processAttachments(attachments, subject, date): one info per attachment, with
\* error set for a failed save and folderUrl set for a saved file
processAttachments(attachments, af) ==
  IF Len(attachments) = 0 THEN [threw |-> FALSE, info |-> <<>>]
  ELSE IF af.folder # "ok" THEN [threw |-> TRUE, info |-> <<>>]
  ELSE [threw |-> FALSE,
        info |-> [i \in 1..Len(attachments) |->
                    [originalName |-> attachments[i],
                     error |-> i \in af.failed,
                     folderUrl |-> i \notin af.failed]]]

-----------------------------------------------------------------------------
(* AttachmentArchiver in detail: driveManager on a Drive folder tree *)

\* A file name is held in parts: the stem, the numeric suffixes "_n" that follow
\* the stem, the extension after the last dot ("" for a name without a dot), and
\* the numbers appended behind the extension ("report_2.pdf_17" is stem "report",
\* sfx <<2>>, ext "pdf", tail <<17>>).  Two names are the same string exactly
\* when their parts are equal.
FileName(stem, sfx, ext) == [stem |-> stem, sfx |-> sfx, ext |-> ext, tail |-> <<>>]

NoName == FileName("", <<>>, "")

\* name.endsWith("." + ext)
endsWithExtension(name, ext) == name.tail = <<>> /\ name.ext = ext

\* replace(/[<>:"/\\|?*]/g, '_') on the stems of the model
replaceInvalid(text) ==
  CASE text = "re:port" -> "re_port"
    [] OTHER -> text

\* A text is a sequence of characters; "n" is a line feed and " " a space, the
\* white space of the model
WhiteSpace == {"n", " "}

RECURSIVE trim(_)
\* String.prototype.trim
trim(body) ==
  IF body = <<>> THEN body
  ELSE IF body[1] \in WhiteSpace THEN trim(Tail(body))
  ELSE IF body[Len(body)] \in WhiteSpace THEN trim(SubSeq(body, 1, Len(body) - 1))
  ELSE body

\* generateSimpleFilename with the index never added
generateSimpleFilename_NoIndex(index, originalName, now) ==
  IF originalName # NoName
    THEN [originalName EXCEPT !.stem = replaceInvalid(@)]
    ELSE FileName("attachment", <<index + 1, now>>, "")

\* generateSimpleFilename(index, originalName): the cleaned name, with "_<index+1>"
\* before the extension for every attachment but the first; an attachment without
\* a name becomes attachment_<index+1>_<time>
generateSimpleFilename(index, originalName, now) ==
  IF originalName # NoName
    THEN LET cleanName == [originalName EXCEPT !.stem = replaceInvalid(@)]
         IN IF index > 0
              THEN [cleanName EXCEPT !.sfx = Append(@, index + 1)]
              ELSE cleanName
    ELSE FileName("attachment", <<index + 1, now>>, "")

\* folder.getFilesByName(name).hasNext()
fileExists(files, name) == \E i \in 1..Len(files) : files[i].name = name

\* ensureUniqueFilename(folder, fileName): the name itself when it is free, else
\* the first free name among base_1.ext .. base_<PROBE_LIMIT-1>.ext; when the loop
\* runs out, the name probed last is returned although it exists.  A lookup that
\* throws is caught and the timestamp is appended behind the whole name.
ensureUniqueFilename(files, fileName, lookupThrows, now) ==
  IF lookupThrows THEN [fileName EXCEPT !.tail = Append(@, now)]
  ELSE IF ~fileExists(files, fileName) THEN fileName
  ELSE LET uniqueName(counter) == [fileName EXCEPT !.sfx = Append(@, counter)]
           free == {k \in 1..(PROBE_LIMIT - 1) : ~fileExists(files, uniqueName(k))}
       IN IF free = {}
            THEN uniqueName(PROBE_LIMIT - 1)
            ELSE uniqueName(CHOOSE k \in free : \A j \in free : k <= j)

\* what Drive does during one saveAttachmentToDrive: "lookupThrows" is
\* getFilesByName throwing, "createThrows" is copyBlob / createFile throwing
SaveFaults == {"none", "lookupThrows", "createThrows"}

\* saveAttachmentToDrive(attachment, subject, index, folder): Drive accepts a file
\* under any name, also one that is already taken
saveAttachmentToDrive(files, attachment, index, fault, now) ==
  LET safeFileName == generateSimpleFilename(index, attachment, now)
      finalFileName == ensureUniqueFilename(files, safeFileName,
                                            fault = "lookupThrows", now)
  IN IF fault = "createThrows"
       THEN [threw |-> TRUE, files |-> files, savedName |-> NoName]
       ELSE [threw |-> FALSE,
             files |-> Append(files, [name |-> finalFileName, by |-> "archiver"]),
             savedName |-> finalFileName]

\* the callback of attachments.forEach with a save that throws dropped from the
\* report
forEachAttachment_SkipsFailed(files, attachment, index, fault, now) ==
  LET s == saveAttachmentToDrive(files, attachment, index, fault, now)
  IN [files |-> s.files,
      pushed |-> IF s.threw THEN <<>>
                 ELSE <<[originalName |-> attachment, savedName |-> s.savedName,
                         error |-> FALSE]>>]

\* the callback of attachments.forEach: the info of the saved file, or an info
\* with the error of the save that threw, is pushed
forEachAttachment(files, attachment, index, fault, now) ==
  LET s == saveAttachmentToDrive(files, attachment, index, fault, now)
  IN [files |-> s.files,
      pushed |-> <<[originalName |-> attachment, savedName |-> s.savedName,
                    error |-> s.threw]>>]

\* attachments.forEach from position index on; one millisecond passes per save
RECURSIVE forEachFrom(_, _, _, _, _, _)
forEachFrom(files, attachments, index, faults, now, attachmentInfo) ==
  IF index >= Len(attachments)
    THEN [files |-> files, attachmentInfo |-> attachmentInfo]
    ELSE LET r == forEachAttachment(files, attachments[index + 1], index,
                                    faults[index + 1], now + index)
         IN forEachFrom(r.files, attachments, index + 1, faults, now,
                        attachmentInfo \o r.pushed)

\* Utilities.formatDate(emailDate, 'JST', 'yyyy-MM-dd'): emailDate in hours since
\* the epoch, the date as the day number in UTC+9
formatDate(emailDate) == (emailDate + 9) \div 24

\* the characters of [<>:"/\\|?*], illegal in folder names
InvalidChars == {"<", ">", ":", "\"", "/", "\\", "|", "?", "*"}

\* the characters of [【】], [「」] and [／\/]; "bracket" stands for any of the
\* Japanese brackets and "wideSlash" for the full-width slash, one character each
BracketChars == {"bracket", "wideSlash", "/"}

\* replace(/[...]/g, '_')
replaceChars(text, chars) ==
  [i \in 1..Len(text) |-> IF text[i] \in chars THEN "_" ELSE text[i]]

RECURSIVE collapseSpaces(_)
\* replace(/\s+/g, ' '): a run of white space becomes one space
collapseSpaces(text) ==
  IF text = <<>> THEN text
  ELSE IF text[1] \in WhiteSpace
    THEN IF Len(text) > 1 /\ text[2] \in WhiteSpace
           THEN collapseSpaces(Tail(text))
           ELSE <<" ">> \o collapseSpaces(Tail(text))
    ELSE <<text[1]>> \o collapseSpaces(Tail(text))

\* a subject that is no string (null, undefined): subject.replace throws
NoSubject == <<"null">>

\* `Email_${Utilities.formatDate(new Date(), 'JST', 'HHmmss')}`: the name made of
\* the time of day, one character of the model
Fallback == <<"Email_HHmmss">>

\* cleanSubjectForFolder with the substring(0, 100) left out
cleanSubjectForFolder_NoLimit(subject) ==
  IF subject = NoSubject THEN Fallback
  ELSE replaceChars(trim(collapseSpaces(replaceChars(subject, InvalidChars))),
                    BracketChars)

\* cleanSubjectForFolder(subject): the chain of replacements, or the fallback when
\* the chain throws
cleanSubjectForFolder(subject) ==
  IF subject = NoSubject THEN Fallback
  ELSE LET limited == trim(collapseSpaces(replaceChars(subject, InvalidChars)))
       IN replaceChars(SubSeq(limited, 1, Min(Len(limited), FOLDER_SUBJECT_LENGTH)),
                       BracketChars)

FolderName(emailDate, subject) ==
  [date |-> formatDate(emailDate), subject |-> cleanSubjectForFolder(subject)]

BaseFolder == [date |-> -1, subject |-> <<"DRIVE_FOLDER_ID">>]

folderExists(folders, name) == \E i \in 1..Len(folders) : folders[i].name = name

\* what Drive does during one createEmailFolder: getFoldersByName throws, createFolder
\* throws, or getUrl / getId of the folder just created throws
FolderFaults == {"none", "lookupThrows", "createThrows", "urlThrows"}

\* createEmailFolder with the lookup by name left out
createEmailFolder_AlwaysCreates(folders, subject, emailDate, ff) ==
  LET folderName == FolderName(emailDate, subject)
  IN IF ff # "none"
       THEN [folder |-> BaseFolder, folders |-> folders, created |-> FALSE]
       ELSE [folder |-> folderName,
             folders |-> Append(folders, [name |-> folderName, by |-> "archiver"]),
             created |-> TRUE]

\* createEmailFolder(baseFolder, subject, emailDate): the folder of that name when
\* there is one, else a new folder; the base folder when Drive throws
createEmailFolder(folders, subject, emailDate, ff) ==
  LET folderName == FolderName(emailDate, subject)
  IN IF ff = "lookupThrows"
       THEN [folder |-> BaseFolder, folders |-> folders, created |-> FALSE]
     ELSE IF folderExists(folders, folderName)
       THEN [folder |-> folderName, folders |-> folders, created |-> FALSE]
     ELSE IF ff = "createThrows"
       THEN [folder |-> BaseFolder, folders |-> folders, created |-> FALSE]
     ELSE IF ff = "urlThrows"
       THEN [folder |-> BaseFolder,
             folders |-> Append(folders, [name |-> folderName, by |-> "archiver"]),
             created |-> TRUE]
     ELSE [folder |-> folderName,
           folders |-> Append(folders, [name |-> folderName, by |-> "archiver"]),
           created |-> TRUE]

\* processAttachments(attachments, subject, emailDate) on Drive d; fs.base is
\* "throws" when DRIVE_FOLDER_ID is missing or getFolderById throws
processAttachmentsOnDrive(d, attachments, subject, emailDate, fs, now) ==
  IF Len(attachments) = 0
    THEN [threw |-> FALSE, attachmentInfo |-> <<>>, drive |-> d,
          folder |-> BaseFolder, created |-> FALSE]
  ELSE IF fs.base = "throws"
    THEN [threw |-> TRUE, attachmentInfo |-> <<>>, drive |-> d,
          folder |-> BaseFolder, created |-> FALSE]
  ELSE LET emailFolder == createEmailFolder(d.folders, subject, emailDate, fs.folder)
           r == forEachFrom(d.files[emailFolder.folder], attachments, 0, fs.saves,
                            now, <<>>)
       IN [threw |-> FALSE, attachmentInfo |-> r.attachmentInfo,
           drive |-> [folders |-> emailFolder.folders,
                      files |-> [d.files EXCEPT ![emailFolder.folder] = r.files]],
           folder |-> emailFolder.folder, created |-> emailFolder.created]

\* the inputs of the archiver calls of the model
Report == FileName("report", <<>>, "pdf")
Report2 == FileName("report", <<2>>, "pdf")
Colon == FileName("re:port", <<>>, "txt")
AttachmentLists == {<<>>, <<Report>>, <<Colon>>, <<Report, Report>>, <<Report2, Report>>}
ArchiveSubjects == {<<"a", "/", "b">>, <<"a", "_", "b">>}
EmailDates == {10, 20}
FolderKeys == {BaseFolder} \cup {FolderName(t, x) : t \in EmailDates, x \in ArchiveSubjects}

ArchiveFaults(attachments) ==
  IF Len(attachments) = 0
    THEN {[base |-> "ok", folder |-> "none", saves |-> <<>>]}
    ELSE {[base |-> "throws", folder |-> "none",
           saves |-> [i \in 1..Len(attachments) |-> "none"]]}
         \cup {[base |-> "ok", folder |-> ff,
                 saves |-> [i \in 1..Len(attachments) |-> "none"]] : ff \in FolderFaults}
         \cup {[base |-> "ok", folder |-> "none", saves |-> sv] :
                 sv \in [1..Len(attachments) -> SaveFaults]}

NoArchive == [attachments |-> <<>>, base |-> "ok", saves |-> <<>>, called |-> FALSE,
              threw |-> FALSE,
              attachmentInfo |-> <<>>, folder |-> BaseFolder, created |-> FALSE]

EmptyDrive == [folders |-> <<>>, files |-> [k \in FolderKeys |-> <<>>]]

InitArchive ==
  /\ drive = EmptyDrive
  /\ aClock = 1
  /\ aOps = 0
  /\ aLast = NoArchive

-----------------------------------------------------------------------------
(* NotificationDispatcher: sendSlackNotification *)

Unit(kind, via, part) == [kind |-> kind, via |-> via, part |-> part]

\* number of chunks sendLongEmailBody cuts a body of this length into
chunkCount(bodyLength) == (bodyLength + chunkSize - 1) \div chunkSize

\* the continuation units accepted: the loop breaks at the first failed part
continuationUnits(via, bodyLength, contFailAt) ==
  IF bodyLength > LONG_BODY_LENGTH
    THEN LET n == chunkCount(bodyLength)
             sent == IF contFailAt = 0 THEN n ELSE Min(n, contFailAt - 1)
         IN [i \in 1..sent |-> Unit("continuation", via, i)]
    ELSE <<>>

\* the attachments the follow-up is about: saved, with a folder link
savedPdfAttachments(info) ==
  {i \in 1..Len(info) : ~info[i].error /\ info[i].folderUrl}

\* the follow-up unit accepted (SEND_DRIVE_FOLDER_NOTIFICATION is true)
followUpUnits(via, info, followFails) ==
  IF savedPdfAttachments(info) # {} /\ ~followFails
    THEN <<Unit("followup", via, 1)>>
    ELSE <<>>

\* one UrlFetchApp.fetch to the chat transport, and whether it was accepted
Call(kind, via, part, accepted) ==
  [kind |-> kind, via |-> via, part |-> part, accepted |-> accepted]

\* the fetches of sendLongEmailBody / sendLongEmailBodyInThread: one per chunk, up
\* to and including the first that is refused
continuationCalls(via, bodyLength, contFailAt) ==
  IF bodyLength > LONG_BODY_LENGTH
    THEN LET n == chunkCount(bodyLength)
             made == IF contFailAt = 0 THEN n ELSE Min(n, contFailAt)
         IN [i \in 1..made |-> Call("continuation", via, i, i # contFailAt)]
    ELSE <<>>

\* the fetch of sendDriveFolderNotification / sendDriveFolderNotificationInThread
followUpCalls(via, info, followFails) ==
  IF savedPdfAttachments(info) # {}
    THEN <<Call("followup", via, 1, ~followFails)>>
    ELSE <<>>

\* the milliseconds of Utilities.sleep between the fetch of call prev and the fetch
\* of the next call: sendLongEmailBody and sendDriveFolderNotification sleep 1000
\* right before their fetch; sendLongEmailBodyInThread sleeps 500 after a chunk
\* that was accepted; nothing else on the way from one fetch to the next sleeps
sleepBefore(prev, call) ==
  (IF call.via = "hook" /\ call.kind \in {"continuation", "followup"}
     THEN 1000 ELSE 0)
  + (IF prev.via = "api" /\ prev.kind = "continuation" /\ prev.accepted
       THEN 500 ELSE 0)

\* What the chat transport does to one dispatch:
\*   useAPI      USE_SLACK_API = 'true'
\*   api         the Web API's answer to the primary: noToken (no SLACK_BOT_TOKEN),
\*               ok (ok with ts), okNoTs (ok, no ts), notOk, throws
\*   hook        the webhook's answer to the primary: 200, fail (not 200), throws
\*   contFailAt  the continuation part that is refused (0: none)
\*   followFails the follow-up is refused
SlackChoices(bodyLength, info) ==
  LET parts == IF bodyLength > LONG_BODY_LENGTH THEN 0..chunkCount(bodyLength) ELSE {0}
      follow == IF savedPdfAttachments(info) # {} THEN BOOLEAN ELSE {FALSE}
      hookFails == {[useAPI |-> u, api |-> a, hook |-> h, contFailAt |-> 0,
                     followFails |-> FALSE] :
                       u \in {TRUE}, a \in {"noToken", "notOk", "throws"},
                       h \in {"fail", "throws"}}
                   \cup {[useAPI |-> FALSE, api |-> "none", hook |-> h, contFailAt |-> 0,
                          followFails |-> FALSE] : h \in {"fail", "throws"}}
      delivered == {[useAPI |-> TRUE, api |-> a, hook |-> h, contFailAt |-> c,
                     followFails |-> ff] :
                       a \in {"noToken", "notOk", "throws", "okNoTs"},
                       h \in {"200"}, c \in parts, ff \in follow}
                   \cup {[useAPI |-> TRUE, api |-> "okNoTs", hook |-> h, contFailAt |-> c,
                          followFails |-> ff] :
                            h \in {"fail", "throws"}, c \in parts, ff \in follow}
                   \cup {[useAPI |-> TRUE, api |-> "ok", hook |-> "unused",
                          contFailAt |-> c, followFails |-> ff] : c \in parts, ff \in follow}
                   \cup {[useAPI |-> FALSE, api |-> "none", hook |-> "200",
                          contFailAt |-> c, followFails |-> ff] : c \in parts, ff \in follow}
  IN hookFails \cup delivered

\* sendSlackNotificationViaAPI(emailData): the timestamp it returns and the units the
\* Web API accepted
sendSlackNotificationViaAPI(bodyLength, info, sf) ==
  IF sf.api \in {"ok", "okNoTs"}
    THEN [ts |-> IF sf.api = "ok" THEN "ts" ELSE "undefined",
          units |-> <<Unit("primary", "api", 1)>>
                    \o continuationUnits("api", bodyLength, sf.contFailAt)
                    \o followUpUnits("api", info, sf.followFails),
          calls |-> <<Call("primary", "api", 1, TRUE)>>
                    \o continuationCalls("api", bodyLength, sf.contFailAt)
                    \o followUpCalls("api", info, sf.followFails)]
    ELSE [ts |-> "null", units |-> <<>>,
          calls |-> IF sf.api = "noToken" THEN <<>>
                    ELSE <<Call("primary", "api", 1, FALSE)>>]

\* the webhook half of sendSlackNotification raising when a continuation or the
\* follow-up is refused
sendViaWebhook_LaterFailureThrows(bodyLength, info, sf) ==
  IF sf.hook = "200"
    THEN [threw |-> \E i \in 1..Len(continuationCalls("hook", bodyLength, sf.contFailAt)
                                    \o followUpCalls("hook", info, sf.followFails)) :
                      ~(continuationCalls("hook", bodyLength, sf.contFailAt)
                        \o followUpCalls("hook", info, sf.followFails))[i].accepted,
          units |-> <<Unit("primary", "hook", 1)>>
                    \o continuationUnits("hook", bodyLength, sf.contFailAt)
                    \o followUpUnits("hook", info, sf.followFails),
          calls |-> <<Call("primary", "hook", 1, TRUE)>>
                    \o continuationCalls("hook", bodyLength, sf.contFailAt)
                    \o followUpCalls("hook", info, sf.followFails)]
    ELSE [threw |-> TRUE, units |-> <<>>,
          calls |-> <<Call("primary", "hook", 1, FALSE)>>]

\* the webhook half of sendSlackNotification
sendViaWebhook(bodyLength, info, sf) ==
  IF sf.hook = "200"
    THEN [threw |-> FALSE,
          units |-> <<Unit("primary", "hook", 1)>>
                    \o continuationUnits("hook", bodyLength, sf.contFailAt)
                    \o followUpUnits("hook", info, sf.followFails),
          calls |-> <<Call("primary", "hook", 1, TRUE)>>
                    \o continuationCalls("hook", bodyLength, sf.contFailAt)
                    \o followUpCalls("hook", info, sf.followFails)]
    ELSE [threw |-> TRUE, units |-> <<>>,      \* throw new Error / catch: throw error
          calls |-> <<Call("primary", "hook", 1, FALSE)>>]

\* sendSlackNotification giving up when the Web API call returned no timestamp
sendSlackNotification_NoFallback(bodyLength, info, sf) ==
  IF sf.useAPI
    THEN LET api == sendSlackNotificationViaAPI(bodyLength, info, sf)
         IN [threw |-> api.ts # "ts", units |-> api.units, calls |-> api.calls]
    ELSE sendViaWebhook(bodyLength, info, sf)

\* sendSlackNotification(emailData): whether it threw and the units the chat
\* transport accepted, in order
sendSlackNotification(bodyLength, info, sf) ==
  IF sf.useAPI
    THEN LET api == sendSlackNotificationViaAPI(bodyLength, info, sf)
         IN IF api.ts = "ts"
              THEN [threw |-> FALSE, units |-> api.units,      \* sent via API
                    calls |-> api.calls]
              ELSE LET hook == sendViaWebhook(bodyLength, info, sf)   \* fall through
                   IN [threw |-> hook.threw, units |-> api.units \o hook.units,
                       calls |-> api.calls \o hook.calls]
    ELSE sendViaWebhook(bodyLength, info, sf)

primaries(units) == Cardinality({i \in 1..Len(units) : units[i].kind = "primary"})

\* A body is a sequence of characters: "a" a letter, "." a full stop, "n" a line
\* feed; the markers formatEmailBody adds count as one character each
Chars == {"a", ".", "n"}

RECURSIVE collapseBlankLines(_)
\* replace(/\n\s*\n\s*\n/g, '\n\n'): a run of three or more line feeds becomes two
collapseBlankLines(body) ==
  IF Len(body) < 3 THEN body
  ELSE IF body[1] = "n" /\ body[2] = "n" /\ body[3] = "n"
    THEN collapseBlankLines(Tail(body))
    ELSE <<body[1]>> \o collapseBlankLines(Tail(body))

\* lastIndexOf of a full stop, 0-based, -1 when there is none
lastFullStop(text) ==
  LET at == {i \in 1..Len(text) : text[i] = "."}
  IN IF at = {} THEN -1 ELSE (CHOOSE i \in at : \A j \in at : j <= i) - 1

\* lastIndexOf('\n\n'), 0-based, -1 when there is none
lastParagraphBreak(text) ==
  LET at == {i \in 1..(Len(text) - 1) : text[i] = "n" /\ text[i + 1] = "n"}
  IN IF at = {} THEN -1 ELSE (CHOOSE i \in at : \A j \in at : j <= i) - 1

\* formatEmailBody(body) with CONFIG.SHOW_FULL_EMAIL_BODY true
formatEmailBody(body) ==
  IF trim(body) = <<>> THEN <<"_no body_">>
  ELSE LET cleanBody == trim(collapseBlankLines(body))
       IN IF Len(cleanBody) <= BODY_PREVIEW_LENGTH THEN cleanBody
          ELSE LET truncated == SubSeq(cleanBody, 1, BODY_PREVIEW_LENGTH)
                   a == lastFullStop(truncated)
                   b == lastParagraphBreak(truncated)
                   lastSentenceEnd == IF a > b THEN a ELSE b
               IN IF lastSentenceEnd * 10 > BODY_PREVIEW_LENGTH * 8
                    THEN SubSeq(truncated, 1, lastSentenceEnd + 1)
                         \o <<"n", "n", "_rest omitted_">>
                    ELSE truncated \o <<".", ".", ".", "n", "n", "_rest omitted_">>

RECURSIVE chunksOf_Overlapping(_)
\* the loop of sendLongEmailBody going on at the last character of the chunk
chunksOf_Overlapping(remainingBody) ==
  IF Len(remainingBody) = 0 THEN <<>>
  ELSE IF Len(remainingBody) <= chunkSize THEN <<remainingBody>>
  ELSE <<SubSeq(remainingBody, 1, chunkSize)>>
       \o chunksOf_Overlapping(SubSeq(remainingBody, chunkSize, Len(remainingBody)))

RECURSIVE chunksOf(_)
\* the while loop of sendLongEmailBody / sendLongEmailBodyInThread: chunk is
\* remainingBody.substring(0, Math.min(chunkSize, remainingBody.length)), and
\* remainingBody goes on behind it
chunksOf(remainingBody) ==
  IF Len(remainingBody) = 0 THEN <<>>
  ELSE LET chunk == SubSeq(remainingBody, 1, Min(chunkSize, Len(remainingBody)))
       IN <<chunk>> \o chunksOf(SubSeq(remainingBody, Len(chunk) + 1,
                                       Len(remainingBody)))

\* the delivery calls with the text of their payload: the chunk of a continuation
withText(calls, fullBody) ==
  [i \in 1..Len(calls) |->
     [kind |-> calls[i].kind, via |-> calls[i].via, part |-> calls[i].part,
      accepted |-> calls[i].accepted,
      text |-> IF calls[i].kind = "continuation"
                 THEN chunksOf(fullBody)[calls[i].part]
                 ELSE <<>>]]

\* the attachment reports of the dispatches of the model: none, one saved, one
\* failed, one failed and one saved
SavedInfo == [originalName |-> "a.pdf", error |-> FALSE, folderUrl |-> TRUE]
FailedInfo == [originalName |-> "b.pdf", error |-> TRUE, folderUrl |-> FALSE]
DispatchInfos == {<<>>, <<SavedInfo>>, <<FailedInfo>>, <<FailedInfo, SavedInfo>>}

NoDispatch == [called |-> FALSE, threw |-> FALSE, calls |-> <<>>]

InitDispatch ==
  /\ dBody = <<>>
  /\ dInfo = <<>>
  /\ dChoice = [useAPI |-> FALSE, api |-> "none", hook |-> "200", contFailAt |-> 0,
                followFails |-> FALSE]
  /\ dResult = NoDispatch

-----------------------------------------------------------------------------
(* IngestionCoordinator: processMessage and the handlers of processEmails *)

\* the catch of processMessage pushing an entry for the first attachment only
failedAttachmentInfo_FirstOnly(attachments) ==
  [i \in 1..Min(1, Len(attachments)) |->
     [originalName |-> attachments[i], error |-> TRUE, folderUrl |-> FALSE]]

\* the entries processMessage builds when processAttachments throws
failedAttachmentInfo(attachments) ==
  [i \in 1..Len(attachments) |->
     [originalName |-> attachments[i], error |-> TRUE, folderUrl |-> FALSE]]

\* a continuation or follow-up call was refused after an accepted primary call
laterCallRefused(calls) ==
  \E i \in 1..Len(calls), j \in 1..Len(calls) :
    /\ i < j
    /\ calls[i].kind = "primary" /\ calls[i].accepted
    /\ calls[j].kind \in {"continuation", "followup"} /\ ~calls[j].accepted

\* the webhook refused the primary notification
hookRefusedPrimary(calls) ==
  \E i \in 1..Len(calls) :
    calls[i].kind = "primary" /\ calls[i].via = "hook" /\ ~calls[i].accepted

NotProcessed ==
  [ret |-> FALSE, matched |-> FALSE, threwInside |-> FALSE, archiveCalls |-> 0,
   notifyCalled |-> FALSE, notifyThrew |-> FALSE, units |-> <<>>, calls |-> <<>>,
   archiveThrew |-> FALSE, info |-> <<>>]

\* A mutant of processMessage: a failed notification makes it return false
processMessage_NotifyFailureFails(m, mf, af, sf) ==
  IF mf \in {"idThrows", "bodyThrows"} THEN [NotProcessed EXCEPT !.threwInside = TRUE]
  ELSE IF ~checkSubjectPattern(Message(m).subject).isMatch THEN NotProcessed
  ELSE IF Len(Message(m).attachments) > 0 /\ af.folder = "nameThrows"
    THEN [NotProcessed EXCEPT !.matched = TRUE, !.threwInside = TRUE,
                              !.archiveCalls = 1, !.archiveThrew = TRUE]
  ELSE LET msg == Message(m)
           arch == processAttachments(msg.attachments, af)
           info == IF arch.threw THEN failedAttachmentInfo(msg.attachments)
                   ELSE arch.info
           slack == sendSlackNotification(msg.bodyLength, info, sf)
       IN [ret |-> ~slack.threw,
           matched |-> TRUE,
           threwInside |-> FALSE,
           archiveCalls |-> IF Len(msg.attachments) > 0 THEN 1 ELSE 0,
           notifyCalled |-> TRUE,
           notifyThrew |-> slack.threw,
           units |-> slack.units,
           calls |-> slack.calls,
           archiveThrew |-> arch.threw,
           info |-> info]

\* processMessage(message) under message fault mf, archive choice af and transport
\* choice sf: what it returns and what it did
processMessage(m, mf, af, sf) ==
  IF mf \in {"idThrows", "bodyThrows"}
    THEN [NotProcessed EXCEPT !.threwInside = TRUE]     \* outer catch: return false
  ELSE IF ~checkSubjectPattern(Message(m).subject).isMatch
    THEN NotProcessed                                   \* pattern mismatch: return false
  ELSE IF Len(Message(m).attachments) > 0 /\ af.folder = "nameThrows"
    THEN [NotProcessed EXCEPT !.matched = TRUE, !.threwInside = TRUE,
                              !.archiveCalls = 1, !.archiveThrew = TRUE]
  ELSE LET msg == Message(m)
           arch == processAttachments(msg.attachments, af)
           info == IF arch.threw THEN failedAttachmentInfo(msg.attachments)
                   ELSE arch.info
           slack == sendSlackNotification(msg.bodyLength, info, sf)
       IN [ret |-> TRUE,                                \* also when the notification threw
           matched |-> TRUE,
           threwInside |-> FALSE,
           archiveCalls |-> IF Len(msg.attachments) > 0 THEN 1 ELSE 0,
           notifyCalled |-> TRUE,
           notifyThrew |-> slack.threw,
           units |-> slack.units,
           calls |-> slack.calls,
           archiveThrew |-> arch.threw,
           info |-> info]

\* the history record of a handler call
NoLast ==
  [op |-> "none", msg |-> "none", trash |-> FALSE, found |-> FALSE,
   readFault |-> "none", inSheet |-> "notCalled", already |-> FALSE,
   checkThrew |-> FALSE, called |-> FALSE, ret |-> FALSE, matched |-> FALSE,
   threwInside |-> FALSE, archiveCalls |-> 0, notifyCalled |-> FALSE,
   notifyThrew |-> FALSE, primaries |-> 0, refused |-> FALSE, hookRefused |-> FALSE,
   markCalled |-> FALSE,
   appended |-> FALSE, counted |-> FALSE, errored |-> FALSE, notified |-> FALSE,
   triggered |-> FALSE, removed |-> 0, cleanupFailed |-> FALSE,
   transport |-> FALSE, config |-> "none", validated |-> FALSE, searched |-> FALSE,
   rethrown |-> FALSE, returned |-> Undefined, archiveThrew |-> FALSE,
   info |-> <<>>]

\* the history of an id: the runs that delivered its primary notification, whether a
\* run processed it after a failed ledger read, whether a ledger write for it failed
\* or its row was removed, whether a row for it was appended outside a run
NoHist == [deliveredRuns |-> 0, readFault |-> FALSE, rowLost |-> FALSE,
           direct |-> FALSE]

LegacyIds == {"m0", "m1"}
AllIds == MessageIds \cup LegacyIds

bump(n) == Min(n + 1, CountCap)

\* ids that had a row in `before` and have none in `after`
lostIds(before, after) == {x \in AllIds : rowsOf(before, x) # {} /\ rowsOf(after, x) = {}}

\* the history after a step in which the ids of `lost` lost their rows
histAfter(lost) ==
  [x \in AllIds |-> [hist[x] EXCEPT !.rowLost = @ \/ x \in lost]]

\* every outcome of processMessage for message m under message fault mf, over what
\* the folder store and the chat transport can do
processMessageOutcomes ==
  [m \in MessageIds, mf \in {"none", "idThrows", "bodyThrows"} |->
     LET msg == Message(m)
     IN UNION {
          { LET pm == processMessage(m, mf, af, sf)
            IN [ret |-> pm.ret, matched |-> pm.matched,
                threwInside |-> pm.threwInside,
                archiveCalls |-> pm.archiveCalls,
                notifyCalled |-> pm.notifyCalled,
                notifyThrew |-> pm.notifyThrew,
                primaries |-> primaries(pm.units),
                refused |-> laterCallRefused(pm.calls),
                hookRefused |-> hookRefusedPrimary(pm.calls),
                transport |-> pm.calls # <<>>,
                archiveThrew |-> pm.archiveThrew, info |-> pm.info] :
              sf \in SlackChoices(msg.bodyLength,
                       IF af.folder # "ok"
                         THEN failedAttachmentInfo(msg.attachments)
                         ELSE processAttachments(msg.attachments, af).info) } :
          af \in ArchiveChoices(msg.attachments) }]

\* every outcome of the ledger check of message m, over what the store can do; the
\* read is "failed" when the sheet was out of reach, "recreate" when a new spreadsheet
\* took the place of the stored one
checkOutcomes(rows, m, idThrows) ==
  { LET chk == isMessageAlreadyProcessed(rows, m, rf, idThrows)
    IN [readFault |-> IF chk.failed THEN "failed"
                      ELSE IF rf = "recreate" /\ ~idThrows THEN "recreate" ELSE "none",
        inSheet |-> chk.inSheet, value |-> chk.value, threw |-> chk.threw,
        rows |-> chk.rows] : rf \in ReadFaults }

\* every outcome of the ledger write of message m, over what the store can do
markOutcomes(rows, m, now) ==
  UNION { { markMessageProcessedInSheet(rows, m, now, kf, cf) :
              cf \in CleanupChoices(rows, kf) } : kf \in MarkFaults }

\* The end of the message callback: the counters, the sheet and the label of the
\* thread, from what the callback did (o), the rows the ledger check left (checked)
\* and the rows the callback left
Finish(o, checked, rows) ==
  LET m == o.msg
      h == histAfter(lostIds(sheet, checked) \cup lostIds(checked, rows))
  IN /\ sheet' = rows
     /\ checkedCount' = checkedCount + 1
     /\ processedCount' = IF o.ret THEN processedCount + 1 ELSE processedCount
     /\ errorCount' = IF o.errored THEN errorCount + 1 ELSE errorCount
     /\ threadHasNewMessages' = IF lastOfThread(pos) THEN FALSE
                                ELSE (threadHasNewMessages \/ o.ret)
     /\ labeled' = IF lastOfThread(pos) /\ (threadHasNewMessages \/ o.ret)
                     THEN labeled \cup {threadOf(pos)}       \* addProcessedLabel
                     ELSE labeled
     /\ pos' = pos + 1
     /\ runLog' = [runLog EXCEPT !.matched = @ \/ o.matched,
                                 !.transport = @ \/ o.transport]
     /\ last' = [o EXCEPT !.counted = (processedCount' # processedCount)]
     /\ hist' = [h EXCEPT
                   ![m].deliveredRuns = IF o.primaries > 0 THEN bump(@) ELSE @,
                   ![m].readFault = @ \/ (o.readFault = "failed" /\ o.ret),
                   ![m].rowLost = @ \/ (o.markCalled /\ ~o.appended)]
     /\ UNCHANGED <<legacy, clock, pc, runs, ops, classifyVars, partVars>>

\* The callback of messages.forEach for the message at pos
HandleMessage ==
  /\ pc = "running"
  /\ pos <= Len(Batch)
  /\ LET m == Batch[pos]
         o0 == [NoLast EXCEPT !.op = "handle", !.msg = m,
                              !.found = rowsOf(sheet, m) # {}]
     IN \E mf \in MsgFaults :
          IF mf = "inTrashThrows"
            THEN Finish([o0 EXCEPT !.errored = TRUE], sheet, sheet)       \* catch: errorCount++
          ELSE IF mf = "inTrash"
            THEN Finish([o0 EXCEPT !.trash = TRUE], sheet, sheet)         \* return
          ELSE \E chk \in checkOutcomes(sheet, m, mf = "idThrows") :
            LET o2 == [o0 EXCEPT !.readFault = chk.readFault, !.inSheet = chk.inSheet,
                                 !.already = chk.value, !.checkThrew = chk.threw]
            IN IF chk.threw
                 THEN Finish([o2 EXCEPT !.errored = TRUE], chk.rows, chk.rows)
               ELSE IF chk.value
                 THEN Finish(o2, chk.rows, chk.rows)                         \* return
               ELSE IF mf = "subjectThrows"
                 THEN Finish([o2 EXCEPT !.errored = TRUE], chk.rows, chk.rows)
               ELSE
                 \E pm \in processMessageOutcomes[m, mf] :
                   LET o3 == [o2 EXCEPT !.called = TRUE, !.ret = pm.ret,
                                        !.matched = pm.matched,
                                        !.threwInside = pm.threwInside,
                                        !.archiveCalls = pm.archiveCalls,
                                        !.notifyCalled = pm.notifyCalled,
                                        !.notifyThrew = pm.notifyThrew,
                                        !.primaries = pm.primaries,
                                        !.refused = pm.refused,
                                        !.hookRefused = pm.hookRefused,
                                        !.transport = pm.transport,
                                        !.archiveThrew = pm.archiveThrew,
                                        !.info = pm.info]
                   IN IF ~pm.ret
                        THEN Finish(o3, chk.rows, chk.rows)
                        ELSE \E mk \in markOutcomes(chk.rows, m, clock) :
                               Finish([o3 EXCEPT !.markCalled = TRUE,
                                                 !.appended = mk.appended,
                                                 !.triggered = mk.triggered,
                                                 !.removed = mk.removed,
                                                 !.cleanupFailed = mk.cleanupFailed,
                                                 !.errored = mk.threw],
                                      chk.rows, mk.rows)

\* the run log before a run
NoRunLog == [matched |-> FALSE, transport |-> FALSE, errors |-> 0, summaries |-> 0,
             alerts |-> 0, alertCalls |-> 0]

\* what validateConfiguration finds: the webhook property is missing (getProperty
\* throws), it does not start with https://hooks.slack.com/, or the Drive folder can
\* neither be found nor created
Configs == {"valid", "noWebhook", "badWebhook", "noDrive"}

\* A mutant of validateConfiguration: it accepts every configuration
validateConfiguration_AcceptsAll(config) == [threw |-> FALSE]

validateConfiguration(config) == [threw |-> config # "valid"]

\* what UrlFetchApp.fetch does with a webhook message
Fetches == {"200", "500", "throws"}

\* sendErrorNotification: one webhook call, none when the webhook property cannot be
\* read; its catch swallows every exception
sendErrorNotification(config, fetch) ==
  IF config = "noWebhook" THEN <<>>
  ELSE <<Call("alert", "hook", 0, fetch = "200")>>

\* sendErrorSummary: one webhook call; its catch swallows every exception
sendErrorSummary(fetch) == <<Call("summary", "hook", 0, fetch = "200")>>

\* A mutant of the end of processEmails: the summary is sent after every run
endOfRun_AlwaysSummary(errors, fetch) == sendErrorSummary(fetch)

\* the end of processEmails: the calls of the summary, sent when errorCount > 0
endOfRun(errors, fetch) == IF errors > 0 THEN sendErrorSummary(fetch) ELSE <<>>

\* processEmails up to the loop: validateConfiguration and GmailApp.search either
\* pass, or one of them throws and the outer catch calls sendErrorNotification once
\* and rethrows
StartRun ==
  /\ pc = "idle"
  /\ runs < MaxRuns
  /\ runs' = runs + 1
  /\ clock' = clock + 1                      \* the time of the trigger
  /\ \E config \in Configs, query \in {"ok", "throws"}, fetch \in Fetches :
       LET v == validateConfiguration(config)
           alert == sendErrorNotification(config, fetch)
       IN IF v.threw \/ query = "throws"
            THEN /\ last' = [NoLast EXCEPT !.op = "startFailed", !.errored = TRUE,
                                           !.config = config,
                                           !.validated = ~v.threw,
                                           !.searched = ~v.threw,
                                           !.notified = TRUE,
                                           !.transport = alert # <<>>,
                                           !.rethrown = TRUE]
                 /\ runLog' = [NoRunLog EXCEPT !.alerts = 1, !.alertCalls = Len(alert)]
                 /\ UNCHANGED <<pc, pos, processedCount, errorCount, checkedCount,
                                threadHasNewMessages>>
            ELSE /\ pc' = "running"
                 /\ pos' = 1
                 /\ processedCount' = 0
                 /\ errorCount' = 0
                 /\ checkedCount' = 0
                 /\ threadHasNewMessages' = FALSE
                 /\ runLog' = NoRunLog
                 /\ last' = [NoLast EXCEPT !.op = "start", !.config = config,
                                           !.validated = TRUE, !.searched = TRUE]
  /\ UNCHANGED <<sheet, legacy, labeled, ops, hist, classifyVars, partVars>>

\* The catch of threads.forEach: thread.getMessages() throws, the thread is skipped
ThreadError ==
  /\ pc = "running"
  /\ pos <= Len(Batch)
  /\ firstOfThread(pos)
  /\ errorCount' = errorCount + 1
  /\ pos' = pos + Len(threads[threadOf(pos)])
  /\ threadHasNewMessages' = FALSE
  /\ last' = [NoLast EXCEPT !.op = "threadError", !.errored = TRUE]
  /\ UNCHANGED <<ledgerVars, pc, processedCount, checkedCount, labeled, runs, runLog, ops,
                 hist,
                 classifyVars, partVars>>

\* processEmails after the loop: the summary is sent when errorCount > 0, and the
\* counters go out of scope
EndRun ==
  /\ pc = "running"
  /\ pos > Len(Batch)
  /\ pc' = "idle"
  /\ pos' = 1
  /\ processedCount' = 0
  /\ errorCount' = 0
  /\ checkedCount' = 0
  /\ \E fetch \in Fetches :
       LET summary == endOfRun(errorCount, fetch)
       IN /\ last' = [NoLast EXCEPT !.op = "end", !.notified = summary # <<>>]
          /\ runLog' = [runLog EXCEPT !.errors = errorCount,
                                      !.summaries = Len(summary)]
  /\ UNCHANGED <<ledgerVars, threadHasNewMessages, labeled, runs, ops, hist,
                 classifyVars, partVars>>

\* A direct call markMessageProcessedInSheet(message), outside a run
MarkCall(m, f, cf, bound) ==
  /\ pc = "idle"
  /\ ops < bound
  /\ LET mk == markMessageProcessedInSheet(sheet, m, clock, f, cf)
     IN /\ sheet' = mk.rows
        /\ last' = [NoLast EXCEPT !.op = "mark", !.msg = m,
                                  !.found = rowsOf(sheet, m) # {},
                                  !.markCalled = TRUE,
                                  !.appended = mk.appended,
                                  !.triggered = mk.triggered, !.removed = mk.removed,
                                  !.cleanupFailed = mk.cleanupFailed,
                                  !.errored = mk.threw]
        /\ hist' = [histAfter(lostIds(sheet, mk.rows)) EXCEPT ![m].direct = @ \/ mk.appended]
  /\ ops' = ops + 1
  /\ UNCHANGED <<legacy, clock, runVars, classifyVars, partVars>>

\* the ids marked by hand: a mock message and a message of the mailbox
DirectIds == {"m0", "m1"}

DirectMark ==
  \E m \in DirectIds : \E f \in MarkFaults : \E cf \in CleanupChoices(sheet, f) :
    MarkCall(m, f, cf, MaxOps)

\* A call of migrateProcessedMessagesToSheet(), outside a run
Migrate ==
  /\ pc = "idle"
  /\ ops < MaxOps
  /\ \E f \in {"none", "throws"} :
       LET mg == migrateProcessedMessagesToSheet(sheet, legacy, f)
       IN /\ sheet' = mg.rows
          /\ last' = [NoLast EXCEPT !.op = "migrate", !.errored = mg.threw,
                                    !.appended = Len(mg.rows) > Len(sheet),
                                    !.returned = mg.returned]
          /\ hist' = [x \in AllIds |->
                        [hist[x] EXCEPT !.direct =
                           @ \/ (Len(mg.rows) > Len(sheet)
                                 /\ \E i \in 1..Len(legacy) : legacy[i].id = x)]]
  /\ ops' = ops + 1
  /\ UNCHANGED <<legacy, clock, runVars, classifyVars, partVars>>

\* the script property store of an installation upgraded from the legacy tracking
LegacyStore == <<[id |-> "m0", ts |-> 0], [id |-> "m1", ts |-> 0]>>

InitLedger ==
  /\ sheet = <<>>
  /\ legacy = LegacyStore
  /\ clock = 1
  /\ ops = 0
  /\ last = NoLast
  /\ hist = [x \in AllIds |-> NoHist]

\* the triggers of two runs that overlap
Triggers == {1, 2}

\* before the two runs
NoOverlap == [run |-> [r \in Triggers |-> [pc |-> "idle", pos |-> 1, took |-> {}]],
              delivered |-> [m \in MessageIds |-> 0]]

\* before any cleanSubjectForFolder call
NoFolderCall == [called |-> FALSE, subject |-> <<>>, result |-> <<>>]

\* before a run: no operation done for any message
NoStep == [at |-> 1, done |-> [m \in MessageIds |-> {}], base |-> {}]

InitRun ==
  /\ pc = "idle"
  /\ pos = 1
  /\ processedCount = 0
  /\ errorCount = 0
  /\ checkedCount = 0
  /\ threadHasNewMessages = FALSE
  /\ labeled = {}
  /\ runs = 0
  /\ runLog = NoRunLog
  /\ step = NoStep
  /\ mailbox = Threads
  /\ ov = NoOverlap
  /\ fLast = NoFolderCall
  /\ settings = SettingKeys

InitClassify ==
  /\ cSubject = "hello"
  /\ cPatterns = <<>>
  /\ cMode = "any"
  /\ cResult = NoResult

Init == InitLedger /\ InitRun /\ InitClassify /\ InitArchive /\ InitDispatch

Next ==
  \/ StartRun
  \/ ThreadError
  \/ HandleMessage
  \/ EndRun
  \/ DirectMark
  \/ Migrate

Spec == Init /\ [][Next]_vars

-----------------------------------------------------------------------------
(* SpecLedger: successful markMessageProcessedInSheet calls on an empty ledger *)

LedgerMark == \E m \in AllIds : MarkCall(m, "none", "none", MaxMarks)

InitLedgerOnly ==
  /\ InitLedger
  /\ InitRun
  /\ InitClassify
  /\ InitArchive
  /\ InitDispatch

NextLedger == LedgerMark

SpecLedger == InitLedgerOnly /\ [][NextLedger]_vars

-----------------------------------------------------------------------------
(* SpecClassify: checkMultiplePatterns on every subject, pattern list and mode *)

Classify ==
  /\ cResult = NoResult
  /\ cResult' = checkMultiplePatterns(cSubject, cPatterns, cMode)
  /\ UNCHANGED <<ledgerVars, runVars, ops, last, hist, cSubject, cPatterns, cMode, partVars>>

InitClassifyAll ==
  /\ InitLedger
  /\ InitRun
  /\ cSubject \in Subjects
  /\ cPatterns \in PatternLists
  /\ cMode \in MatchModes
  /\ cResult = NoResult
  /\ InitArchive
  /\ InitDispatch

NextClassify == Classify

SpecClassify == InitClassifyAll /\ [][NextClassify]_vars

-----------------------------------------------------------------------------
(* SpecArchive: processAttachments calls, one after the other, on a Drive tree *)
(* that may already hold files with the names the archiver is about to use     *)

\* report.pdf and its first n - 1 numbered variants, written by someone else
colliding(n) ==
  [i \in 1..n |-> [name |-> IF i = 1 THEN Report
                            ELSE FileName("report", <<i - 1>>, "pdf"),
                   by |-> "other"]]

Preloaded == FolderName(10, <<"a", "_", "b">>)

Archive ==
  /\ aOps < MaxArchiveOps
  /\ \E attachments \in AttachmentLists, subject \in ArchiveSubjects,
        emailDate \in EmailDates :
       \E fs \in ArchiveFaults(attachments) :
         LET r == processAttachmentsOnDrive(drive, attachments, subject, emailDate,
                                            fs, aClock)
         IN /\ drive' = r.drive
            /\ aLast' = [attachments |-> attachments, base |-> fs.base,
                         saves |-> fs.saves,
                         called |-> TRUE, threw |-> r.threw,
                         attachmentInfo |-> r.attachmentInfo, folder |-> r.folder,
                         created |-> r.created]
            /\ aClock' = aClock + MaxAttachments
  /\ aOps' = aOps + 1
  /\ UNCHANGED <<ledgerVars, runVars, ops, last, hist, classifyVars, dispatchVars,
                 sideVars>>

InitArchiveAll ==
  /\ InitLedger
  /\ InitRun
  /\ InitClassify
  /\ \E n \in 0..(PROBE_LIMIT - 1) :
       drive = IF n = 0 THEN EmptyDrive
               ELSE [folders |-> <<[name |-> Preloaded, by |-> "other"]>>,
                     files |-> [k \in FolderKeys |->
                                  IF k = Preloaded THEN colliding(n) ELSE <<>>]]
  /\ aClock = 1
  /\ aOps = 0
  /\ aLast = NoArchive
  /\ InitDispatch

NextArchive == Archive

SpecArchive == InitArchiveAll /\ [][NextArchive]_vars

-----------------------------------------------------------------------------
(* SpecDispatch: sendSlackNotification for bodies of every length class, every   *)
(* attachment report and every behaviour of the two transports                   *)

\* processMessage's call sendSlackNotification({..., body: formatEmailBody(body),
\* attachments: attachmentInfo})
Dispatch ==
  /\ ~dResult.called
  /\ LET fullBody == formatEmailBody(dBody)
         r == sendSlackNotification(Len(fullBody), dInfo, dChoice)
     IN dResult' = [called |-> TRUE, threw |-> r.threw,
                    calls |-> withText(r.calls, fullBody)]
  /\ UNCHANGED <<ledgerVars, runVars, ops, last, hist, classifyVars, archiveVars,
                 dBody, dInfo, dChoice, sideVars>>

\* a short body, a body of two chunks, a body that formatting shortens
DispatchBodies == {<<"a">>, <<"a", "a", "a", "a">>, <<"a", ".", "a", "n">>}

InitDispatchAll ==
  /\ InitLedger
  /\ InitRun
  /\ InitClassify
  /\ InitArchive
  /\ dBody \in DispatchBodies
  /\ dInfo \in DispatchInfos
  /\ dChoice \in SlackChoices(Len(formatEmailBody(dBody)), dInfo)
  /\ dResult = NoDispatch

NextDispatch == Dispatch

SpecDispatch == InitDispatchAll /\ [][NextDispatch]_vars

-----------------------------------------------------------------------------
(* SpecBody: the dispatch of every plain body of up to MaxBody characters over a *)
(* transport that accepts every call                                             *)

Bodies == UNION {[1..n -> Chars] : n \in 0..MaxBody}

\* the transport behaviours in which every call made is accepted
Accepting ==
  {[useAPI |-> FALSE, api |-> "none", hook |-> "200", contFailAt |-> 0,
    followFails |-> FALSE],
   [useAPI |-> TRUE, api |-> "ok", hook |-> "unused", contFailAt |-> 0,
    followFails |-> FALSE],
   [useAPI |-> TRUE, api |-> "okNoTs", hook |-> "200", contFailAt |-> 0,
    followFails |-> FALSE]}

InitBody ==
  /\ InitLedger
  /\ InitRun
  /\ InitClassify
  /\ InitArchive
  /\ dBody \in Bodies
  /\ dInfo = <<>>
  /\ dChoice \in Accepting
  /\ dResult = NoDispatch

NextBody == Dispatch

SpecBody == InitBody /\ [][NextBody]_vars

-----------------------------------------------------------------------------
(* SpecSteps: a processEmails run taken one operation at a time.  Apps Script runs
   the two forEach loops synchronously; the execution time limit of the trigger can
   end the run between any two service calls. *)

\* the operations of the message callback in program order: isInTrash and
\* isMessageAlreadyProcessed; the field reads and checkSubjectPattern of
\* processMessage; processAttachments; sendSlackNotification;
\* markMessageProcessedInSheet
callbackOrder_RecordFirst == <<"check", "classify", "record", "archive", "notify">>

callbackOrder == <<"check", "classify", "archive", "notify", "record">>

\* the ids with a ledger row
recorded(rows) == {m \in MessageIds : rowsOf(rows, m) # {}}

\* processEmails up to the loop, with a valid configuration
BeginSteps ==
  /\ pc = "idle"
  /\ runs < MaxRuns
  /\ runs' = runs + 1
  /\ clock' = clock + 1
  /\ pc' = "running"
  /\ pos' = 1
  /\ processedCount' = 0
  /\ errorCount' = 0
  /\ checkedCount' = 0
  /\ threadHasNewMessages' = FALSE
  /\ runLog' = NoRunLog
  /\ last' = [NoLast EXCEPT !.op = "start", !.config = "valid", !.validated = TRUE,
                            !.searched = TRUE]
  /\ step' = [NoStep EXCEPT !.base = recorded(sheet)]
  /\ UNCHANGED <<sheet, legacy, labeled, ops, hist, classifyVars, archiveVars,
                 dispatchVars, mailbox, ov, fLast, settings>>

\* the callback returns or its catch has run: the loops go on with the next message,
\* and after the last message of a thread the label is added when a message of the
\* thread was processed
leave(ret) ==
  /\ pos' = pos + 1
  /\ threadHasNewMessages' = IF lastOfThread(pos) THEN FALSE
                             ELSE (threadHasNewMessages \/ ret)
  /\ labeled' = IF lastOfThread(pos) /\ (threadHasNewMessages \/ ret)
                  THEN labeled \cup {threadOf(pos)}
                  ELSE labeled

\* One operation of the callback for the message at pos
Step ==
  /\ pc = "running"
  /\ pos <= Len(Batch)
  /\ LET m == Batch[pos]
         op == callbackOrder[step.at]
         did(os) == [step EXCEPT !.done[m] = @ \cup os]
         \* the callback goes on, or returns after its last operation
         go(os) == IF step.at = Len(callbackOrder)
                      THEN step' = [did(os) EXCEPT !.at = 1] /\ leave(TRUE)
                      ELSE /\ step' = [did(os) EXCEPT !.at = @ + 1]
                           /\ UNCHANGED <<pos, threadHasNewMessages, labeled>>
         \* the callback returns early or throws into its catch
         skip(os) == step' = [did(os \cup {"skip"}) EXCEPT !.at = 1] /\ leave(FALSE)
     IN /\ last' = [NoLast EXCEPT !.op = op, !.msg = m]
        /\ IF op = "check"
             THEN /\ checkedCount' = checkedCount + 1
                  /\ UNCHANGED processedCount
                  /\ \E mf \in MsgFaults :
                       IF mf = "inTrashThrows"
                         THEN /\ skip({op}) /\ errorCount' = errorCount + 1
                              /\ UNCHANGED sheet
                       ELSE IF mf = "inTrash"
                         THEN skip({op}) /\ UNCHANGED <<errorCount, sheet>>
                       ELSE \E chk \in checkOutcomes(sheet, m, mf = "idThrows") :
                         /\ sheet' = chk.rows
                         /\ IF chk.threw \/ (~chk.value /\ mf = "subjectThrows")
                              THEN skip({op}) /\ errorCount' = errorCount + 1
                            ELSE IF chk.value
                              THEN skip({op}) /\ UNCHANGED errorCount
                            ELSE go({op}) /\ UNCHANGED errorCount
           ELSE IF op = "classify"
             THEN /\ UNCHANGED <<sheet, checkedCount, processedCount, errorCount>>
                  /\ \E mf \in {"none", "idThrows", "bodyThrows"} :
                       IF mf # "none" \/ ~checkSubjectPattern(Message(m).subject).isMatch
                         THEN skip({op})                    \* processMessage returns false
                         ELSE go({op})
           ELSE IF op \in {"archive", "notify"}
             THEN /\ UNCHANGED <<sheet, checkedCount, processedCount, errorCount>>
                  /\ go({op})                               \* failures are swallowed
           ELSE \E mk \in markOutcomes(sheet, m, clock) :
                  /\ sheet' = mk.rows
                  /\ processedCount' = processedCount + 1
                  /\ errorCount' = IF mk.threw THEN errorCount + 1 ELSE errorCount
                  /\ UNCHANGED checkedCount
                  /\ go({op})
  /\ UNCHANGED <<legacy, clock, pc, runs, runLog, ops, hist, classifyVars, archiveVars,
                 dispatchVars, mailbox, ov, fLast, settings>>

\* The execution time limit ends the run where it stands
Cut ==
  /\ pc = "running"
  /\ pc' = "idle"
  /\ last' = [NoLast EXCEPT !.op = "cut"]
  /\ UNCHANGED <<ledgerVars, pos, processedCount, errorCount, checkedCount,
                 threadHasNewMessages, labeled, runs, runLog, ops, hist, classifyVars,
                 partVars>>

NextSteps ==
  \/ BeginSteps
  \/ Step
  \/ Cut
  \/ EndRun

SpecSteps == Init /\ [][NextSteps]_vars

-----------------------------------------------------------------------------
(* SpecOverlap: two time-driven triggers run processEmails at the same time on the
   same mailbox and the same sheet; nothing in the code excludes it.  The store and
   the message accessors do not fail; the chat transport does what it can do. *)

\* what processMessage can do for message m: whether it returns true, and the
\* primary notifications the chat transport accepted
deliveries(m) ==
  {[ret |-> pm.ret, primaries |-> pm.primaries] : pm \in processMessageOutcomes[m, "none"]}

\* the position of run r after the callback of its message returned
onward(r) ==
  IF ov.run[r].pos = Len(Batch)
    THEN [ov.run[r] EXCEPT !.pc = "done"]
    ELSE [ov.run[r] EXCEPT !.pc = "read", !.pos = @ + 1]

\* the trigger of run r fires: processEmails searches and enters the loops
OvStart(r) ==
  /\ ov.run[r].pc = "idle"
  /\ ov' = [ov EXCEPT !.run[r].pc = "read"]
  /\ UNCHANGED sheet

\* run r asks isMessageAlreadyProcessed for its message
OvRead(r) ==
  /\ ov.run[r].pc = "read"
  /\ LET m == Batch[ov.run[r].pos]
         chk == isMessageAlreadyProcessed(sheet, m, "none", FALSE)
     IN ov' = IF chk.value
                THEN [ov EXCEPT !.run[r] = onward(r)]                    \* return
                ELSE [ov EXCEPT !.run[r].pc = "process"]
  /\ UNCHANGED sheet

\* run r calls processMessage for its message
OvProcess(r) ==
  /\ ov.run[r].pc = "process"
  /\ LET m == Batch[ov.run[r].pos]
     IN \E d \in deliveries(m) :
          ov' = IF d.ret
                  THEN [ov EXCEPT !.run[r].pc = "append",
                                  !.run[r].took = @ \cup {m},
                                  !.delivered[m] = @ + d.primaries]
                  ELSE [ov EXCEPT !.run[r] = onward(r)]
  /\ UNCHANGED sheet

\* run r calls markMessageProcessedInSheet for its message
OvAppend(r) ==
  /\ ov.run[r].pc = "append"
  /\ LET m == Batch[ov.run[r].pos]
     IN sheet' = markMessageProcessedInSheet(sheet, m, clock, "none", "none").rows
  /\ ov' = [ov EXCEPT !.run[r] = onward(r)]

\* the sheet before the two runs: empty, or with the row of an older message
OverlapSheets == {<<>>, <<Row("m0", 0)>>}

InitOverlap ==
  /\ sheet \in OverlapSheets
  /\ legacy = LegacyStore
  /\ clock = 1
  /\ ops = 0
  /\ last = NoLast
  /\ hist = [x \in AllIds |-> NoHist]
  /\ InitRun /\ InitClassify /\ InitArchive /\ InitDispatch

\* One step of one of the two runs
Overlap ==
  /\ \E r \in Triggers : OvStart(r) \/ OvRead(r) \/ OvProcess(r) \/ OvAppend(r)
  /\ UNCHANGED <<legacy, clock, runVars, ops, last, hist, classifyVars, archiveVars,
                 dispatchVars, step, mailbox, fLast, settings>>

NextOverlap == Overlap

SpecOverlap == InitOverlap /\ [][NextOverlap]_vars

-----------------------------------------------------------------------------
(* SpecBatch: one run of processEmails on a mailbox that earlier runs have worked
   on: a thread may carry the label and the sheet may hold the row of m1. *)

\* a thread in which m4 is a reply to m1, with the same subject; and more threads
\* than one search returns
BatchMailboxes == { << <<"m1", "m4">> >>,
                    << <<"m4">>, <<"m3">>, <<"m2">>, <<"m1">> >> }

InitBatch ==
  /\ sheet \in {<<>>, <<Row("m1", 0)>>}
  /\ legacy = LegacyStore
  /\ clock = 1
  /\ ops = 0
  /\ last = NoLast
  /\ hist = [x \in AllIds |-> NoHist]
  /\ pc = "idle"
  /\ pos = 1
  /\ processedCount = 0
  /\ errorCount = 0
  /\ checkedCount = 0
  /\ threadHasNewMessages = FALSE
  /\ labeled \in {{}, {1}}
  /\ runs = MaxRuns - 1
  /\ runLog = NoRunLog
  /\ step = NoStep
  /\ mailbox \in BatchMailboxes
  /\ ov = NoOverlap
  /\ fLast = NoFolderCall
  /\ settings = SettingKeys
  /\ InitClassify /\ InitArchive /\ InitDispatch

NextBatch ==
  \/ StartRun
  \/ ThreadError
  \/ HandleMessage
  \/ EndRun

SpecBatch == InitBatch /\ [][NextBatch]_vars

-----------------------------------------------------------------------------
(* SpecFolder: cleanSubjectForFolder on every subject of up to MaxSubject
   characters, and on a subject that is no string *)

\* a letter, a space, an illegal character and a Japanese bracket
SubjectChars == {"a", " ", "/", "bracket"}

FolderSubjects ==
  UNION {[1..n -> SubjectChars] : n \in 0..MaxSubject} \cup {NoSubject}

CleanSubject ==
  /\ \E subject \in FolderSubjects :
       fLast' = [called |-> TRUE, subject |-> subject,
                 result |-> cleanSubjectForFolder(subject)]
  /\ UNCHANGED <<ledgerVars, runVars, ops, last, hist, classifyVars, archiveVars,
                 dispatchVars, step, mailbox, ov, settings>>

NextFolder == CleanSubject

SpecFolder == Init /\ [][NextFolder]_vars

-----------------------------------------------------------------------------
(* SpecProps: the upgrade from the legacy tracking: migration into the sheet and
   the cleanup of the script property store, on stores with any of the
   configuration keys set *)

\* A call of cleanupProcessedMessagesFromProperties(), outside a run
CleanupProperties ==
  /\ pc = "idle"
  /\ ops < MaxOps
  /\ \E failAt \in 0..Len(legacy) :
       LET c == cleanupProcessedMessagesFromProperties(properties(legacy, settings),
                                                       failAt)
           left == SelectSeq(c.store, startsWithProcessed)
       IN /\ legacy' = [i \in 1..Len(left) |-> [id |-> left[i].rest,
                                                 ts |-> left[i].value]]
          /\ settings' = {c.store[i].rest :
                            i \in {j \in 1..Len(c.store) :
                                     ~startsWithProcessed(c.store[j])}}
          /\ last' = [NoLast EXCEPT !.op = "cleanup", !.errored = c.failed,
                                    !.returned = c.returned]
  /\ ops' = ops + 1
  /\ UNCHANGED <<sheet, clock, runVars, hist, classifyVars, archiveVars, dispatchVars,
                 step, mailbox, ov, fLast>>

\* the sheet before the upgrade, with one row, and with the legacy entries migrated
PropsSheets ==
  {<<>>, <<Row("m2", 0)>>,
   migrateProcessedMessagesToSheet(<<Row("m2", 0)>>, LegacyStore, "none").rows}

InitProps ==
  /\ sheet \in PropsSheets
  /\ legacy = LegacyStore
  /\ clock = 1
  /\ ops = 0
  /\ last = NoLast
  /\ hist = [x \in AllIds |-> NoHist]
  /\ pc = "idle"
  /\ pos = 1
  /\ processedCount = 0
  /\ errorCount = 0
  /\ checkedCount = 0
  /\ threadHasNewMessages = FALSE
  /\ labeled = {}
  /\ runs = 0
  /\ runLog = NoRunLog
  /\ step = NoStep
  /\ mailbox = Threads
  /\ ov = NoOverlap
  /\ fLast = NoFolderCall
  /\ settings \in SUBSET SettingKeys
  /\ InitClassify /\ InitArchive /\ InitDispatch

NextProps ==
  \/ Migrate
  \/ CleanupProperties

SpecProps == InitProps /\ [][NextProps]_vars

-----------------------------------------------------------------------------
(* Properties *)

\* the position of message m in the batch
indexOf(m) == CHOOSE i \in 1..Len(Batch) : Batch[i] = m

\* the patterns of the classifier input that match its subject: test() returns true
matching == {i \in 1..Len(cPatterns) :
               ~cPatterns[i].bad /\ cSubject \in cPatterns[i].accepts}

C4_ReadFailOpen ==
  (last.op = "handle" /\ last.readFault = "failed")
    => /\ last.inSheet = "false"
       /\ ~last.already
       /\ ~last.checkThrew
       /\ (~last.errored => last.called)

\* the read of the recorded message m1 failed in the second run and m1 was
\* delivered again
C4_Witness ==
  /\ runs = 2 /\ last.op = "handle" /\ last.msg = "m1"
  /\ last.readFault = "failed" /\ last.found
  /\ last.called /\ last.primaries > 0 /\ hist["m1"].deliveredRuns = 2

\* C5: when the ledger write after a successful processMessage fails, the message
\* is still counted, errorCount is not incremented and the loop moves on to the
\* next message.
C5_WriteFailureSwallowed ==
  (last.op = "handle" /\ last.markCalled /\ ~last.appended)
    => /\ last.ret /\ last.counted
       /\ ~last.errored
       /\ pc = "running"
       /\ pos = indexOf(last.msg) + 1

\* the write for m1 failed, m1 is counted, no error is counted, m2 is next
C5_Witness ==
  /\ last.op = "handle" /\ last.msg = "m1"
  /\ last.markCalled /\ ~last.appended
  /\ processedCount = 1 /\ errorCount = 0 /\ Batch[pos] = "m2"

C7_LedgerBounded ==
  /\ Len(sheet) <= MAX_ROWS + CLEANUP_BATCH_SIZE
  /\ (last.op = "mark" => isMessageProcessedInSheet(sheet, last.msg, "none").value)

\* more calls were made than the sheet may hold, and rows were evicted
C7_Witness ==
  /\ last.op = "mark" /\ last.appended
  /\ ops > MAX_ROWS + CLEANUP_BATCH_SIZE
  /\ Len(sheet) < ops

\* C8: in 'any' mode checkMultiplePatterns answers isMatch exactly when some
\* pattern of the list matches the subject, and matchedPattern is the first
\* matching pattern in list order.
C8_AnyMode ==
  (cResult # NoResult /\ cMode = "any")
    => /\ cResult.isMatch = (matching # {})
       /\ (matching # {}) =>
            cResult.matchedPattern =
              cPatterns[CHOOSE i \in matching : \A j \in matching : i <= j].src

\* two patterns match and the answer names the first of them, which is not the
\* first of the list
C8_Witness ==
  /\ cResult # NoResult /\ cMode = "any"
  /\ Cardinality(matching) >= 2 /\ 1 \notin matching
  /\ cResult.isMatch

\* C9: in 'all' mode on a non-empty list checkMultiplePatterns answers isMatch
\* exactly when every pattern matches the subject, and every pattern of the list
\* is in checkedPatterns and in allResults.
C9_AllMode ==
  (cResult # NoResult /\ cMode = "all" /\ Len(cPatterns) > 0)
    => /\ cResult.isMatch = (matching = 1..Len(cPatterns))
       /\ cResult.checkedPatterns = [i \in 1..Len(cPatterns) |-> cPatterns[i].src]
       /\ Len(cResult.allResults) = Len(cPatterns)
       /\ \A i \in 1..Len(cPatterns) :
            /\ cResult.allResults[i].pattern = cPatterns[i].src
            /\ cResult.allResults[i].isMatch = (i \in matching)

\* the first pattern does not match, a later one does, and all were evaluated
C9_Witness ==
  /\ cResult # NoResult /\ cMode = "all" /\ Len(cPatterns) = MaxPatterns
  /\ 1 \notin matching /\ matching # {}
  /\ ~cResult.isMatch /\ Len(cResult.allResults) = MaxPatterns

\* the patterns of the classifier input whose test() throws
throwing == {i \in 1..Len(cPatterns) : cPatterns[i].bad}

matchesNone(m) ==
  \A i \in 1..Len(ConfigPatterns) : Message(m).subject \notin ConfigPatterns[i].accepts

\* C11: for a message whose subject matches none of the configured patterns the
\* callback makes no archive call and no chat-delivery call, writes no ledger row
\* and does not count the message as processed.
C11_NonMatchingUntouched ==
  (last.op = "handle" /\ matchesNone(last.msg))
    => /\ last.archiveCalls = 0
       /\ ~last.notifyCalled
       /\ last.primaries = 0
       /\ ~last.markCalled
       /\ ~last.appended
       /\ ~last.counted
       /\ rowsOf(sheet, last.msg) = {}

\* processMessage was called for m2, whose subject matches no pattern, and it
\* returned false without throwing
C11_Witness ==
  /\ last.op = "handle" /\ last.msg = "m2" /\ matchesNone("m2")
  /\ last.called /\ ~last.ret /\ ~last.matched /\ ~last.threwInside
  /\ processedCount = 0 /\ errorCount = 0

written(k) == {i \in 1..Len(drive.files[k]) : drive.files[k][i].by = "archiver"}

\* C13: no two files that the archiver wrote into one folder have the same stored
\* name, whatever files with colliding names the folder held before.
C13_StoredNamesUnique ==
  \A k \in FolderKeys :
    \A i \in written(k), j \in written(k) :
      i # j => drive.files[k][i].name # drive.files[k][j].name

\* the positions of the last call's attachments that were saved
saved == {i \in 1..Len(aLast.attachmentInfo) : ~aLast.attachmentInfo[i].error}

\* C14: the attachments of one call that share their original name and were saved
\* have pairwise distinct stored names, each ending in the original extension.
C14_SameNameDistinctKeepsExtension ==
  aLast.called
    => \A i \in saved, j \in saved :
         (i # j /\ aLast.attachments[i] = aLast.attachments[j])
           => /\ aLast.attachmentInfo[i].savedName # aLast.attachmentInfo[j].savedName
              /\ endsWithExtension(aLast.attachmentInfo[i].savedName,
                                   aLast.attachments[i].ext)

\* the folders under the base folder named n
foldersNamed(n) == {i \in 1..Len(drive.folders) : drive.folders[i].name = n}

\* C15: under the base folder there is at most one folder per (date, sanitized
\* subject) name, and a call that created a folder had none of that name before:
\* calls with the same pair after the first reuse the folder found by name.
C15_FolderCreatedOnce ==
  \A k \in FolderKeys : Cardinality(foldersNamed(k)) <= 1

C15_Witness ==
  /\ aOps = 2
  /\ aLast.called /\ ~aLast.threw /\ ~aLast.created
  /\ aLast.folder # BaseFolder
  /\ Len(aLast.attachments) > 0
  /\ \E i \in foldersNamed(aLast.folder) : drive.folders[i].by = "archiver"
  /\ Len(drive.files[aLast.folder]) > Len(aLast.attachments)

\* the place of a kind of unit in a dispatch
rank(kind) == CASE kind = "primary" -> 1 [] kind = "continuation" -> 2 [] OTHER -> 3

\* the positions of the delivery calls of a kind in the last dispatch
callsOf(kind) == {i \in 1..Len(dResult.calls) : dResult.calls[i].kind = kind}

\* the primary notification of the last dispatch was delivered
primaryDelivered ==
  \E i \in callsOf("primary") : dResult.calls[i].accepted

\* C16: the delivery calls of one dispatch are ordered: every primary call before
\* every continuation call, the continuation calls in body order, the follow-up
\* call behind all of them, whichever transport carries them.
C16_DispatchOrder ==
  dResult.called
    => \A i \in 1..Len(dResult.calls), j \in 1..Len(dResult.calls) :
         i < j
           => /\ rank(dResult.calls[i].kind) <= rank(dResult.calls[j].kind)
              /\ (dResult.calls[i].kind = "continuation"
                  /\ dResult.calls[j].kind = "continuation")
                   => dResult.calls[i].part < dResult.calls[j].part

\* C18: a dispatch whose primary notification was delivered makes exactly one
\* follow-up call when some attachment was archived and none otherwise, and the
\* follow-up call comes after every continuation call.
C18_OneFollowUp ==
  (dResult.called /\ primaryDelivered)
    => /\ Cardinality(callsOf("followup"))
            = IF \E i \in 1..Len(dInfo) : ~dInfo[i].error THEN 1 ELSE 0
       /\ \A f \in callsOf("followup"), c \in callsOf("continuation") : c < f

RECURSIVE concatenated(_)
\* the texts of a sequence of calls, joined in order
concatenated(calls) ==
  IF calls = <<>> THEN <<>> ELSE Head(calls).text \o concatenated(Tail(calls))

\* the continuation calls of the last dispatch made through transport via, in order
continuationsVia(via) ==
  LET isContinuation(c) == c.kind = "continuation" /\ c.via = via
  IN SelectSeq(dResult.calls, isContinuation)

\* the continuation calls of the last dispatch, in order
continuations ==
  LET isContinuation(c) == c.kind = "continuation"
  IN SelectSeq(dResult.calls, isContinuation)

\* every chunk is non-empty and at most chunkSize long
chunksBounded(calls) ==
  \A i \in 1..Len(calls) : Len(calls[i].text) > 0 /\ Len(calls[i].text) <= chunkSize

noThreadHandle ==
  dChoice.useAPI /\ dChoice.api \in {"noToken", "notOk", "throws", "okNoTs"}

\* the calls of a kind made through the webhook in the last dispatch
hookCalls(kind) == {i \in callsOf(kind) : dResult.calls[i].via = "hook"}

\* C19: in threaded mode without a thread handle sendSlackNotification goes on
\* with the webhook: it raises only when the webhook refuses the primary
\* notification, and when the webhook accepts it, the primary notification, the
\* continuation chunks (the whole body when none is refused) and the follow-up of
\* the archived attachments are sent through the webhook.
C19_FallsBackToWebhook ==
  (dResult.called /\ noThreadHandle)
    => /\ hookCalls("primary") # {}
       /\ dResult.threw <=> (dChoice.hook # "200")
       /\ dChoice.hook = "200"
            => /\ \E i \in hookCalls("primary") : dResult.calls[i].accepted
               /\ Len(formatEmailBody(dBody)) > LONG_BODY_LENGTH
                    => /\ hookCalls("continuation") # {}
                       /\ dChoice.contFailAt = 0
                            => concatenated(continuationsVia("hook"))
                                 = formatEmailBody(dBody)
               /\ (\E i \in 1..Len(dInfo) : ~dInfo[i].error)
                    => Cardinality(hookCalls("followup")) = 1

C19_Witness ==
  /\ dResult.called /\ ~dResult.threw
  /\ dChoice.useAPI /\ dChoice.api = "notOk" /\ dChoice.hook = "200"
  /\ dChoice.contFailAt = 0
  /\ dBody = <<"a", "a", "a", "a">>
  /\ dInfo = <<SavedInfo>>
  /\ Len(dResult.calls) = 5
  /\ ~dResult.calls[1].accepted /\ dResult.calls[1].via = "api"
  /\ \A i \in 2..5 : dResult.calls[i].via = "hook" /\ dResult.calls[i].accepted

\* C20: when a continuation or follow-up call is refused after the primary
\* notification was delivered, the dispatch raises only if the webhook refused a
\* primary notification, processMessage returns true, the message is counted as
\* processed and markMessageProcessedInSheet is called for it: the row is there
\* whenever the ledger write went through.
C20_LaterFailureStillRecorded ==
  (last.op = "handle" /\ last.refused)
    => /\ last.notifyThrew => last.hookRefused
       /\ last.ret
       /\ last.counted
       /\ last.markCalled
       /\ last.appended => rowsOf(sheet, last.msg) # {}

C20_Witness ==
  /\ last.op = "handle" /\ last.msg = "m1" /\ last.refused
  /\ ~last.notifyThrew
  /\ last.primaries = 1
  /\ last.ret /\ last.appended
  /\ rowsOf(sheet, "m1") # {}

\* ---------------------------------------------------------------------------
\* C21.  An exception raised while one message is processed - one raised inside
\* processMessage included - is caught, adds one to the error count of the run, and
\* the batch goes on with the next message.
\* The step is a call of the message callback (checkedCount grows by one); the
\* exception was raised in the callback itself (last.errored, last.checkThrew) or
\* inside processMessage (last.threwInside).
C21_ExceptionCountedBatchGoesOn ==
  [][(checkedCount' = checkedCount + 1
        /\ (last'.errored \/ last'.checkThrew \/ last'.threwInside))
       => /\ errorCount' = errorCount + 1
          /\ pc' = "running"
          /\ pos' = pos + 1]_vars

\* ---------------------------------------------------------------------------
\* C22.  A processEmails run that reaches its end sends exactly one end-of-run
\* summary when its error count is greater than zero and none otherwise; a run with
\* zero errors in which no new message matched makes no chat-transport call at all.
C22_OneSummaryIffErrors ==
  last.op = "end"
    => /\ runLog.summaries = (IF runLog.errors > 0 THEN 1 ELSE 0)
       /\ (runLog.errors = 0 /\ ~runLog.matched)
            => (~runLog.transport /\ runLog.summaries = 0 /\ runLog.alertCalls = 0)

\* a run ended with a positive error count and sent its summary
C22_Witness ==
  /\ last.op = "end" /\ runLog.errors > 0 /\ runLog.summaries = 1 /\ last.notified

\* ---------------------------------------------------------------------------
\* C23.  When validateConfiguration fails at the start of processEmails, the run
\* makes no mailbox search and no archive, notification or ledger operation for any
\* message, calls the error notification once, and rethrows the error.
C23_InvalidConfigurationAborts ==
  [][(runs' = runs + 1 /\ last'.config # "valid")
       => /\ last'.op = "startFailed"
          /\ ~last'.validated
          /\ ~last'.searched
          /\ ~last'.called /\ last'.archiveCalls = 0 /\ ~last'.notifyCalled
          /\ ~last'.markCalled
          /\ sheet' = sheet /\ hist' = hist /\ labeled' = labeled
          /\ pc' = "idle"
          /\ runLog'.alerts = 1 /\ runLog'.alertCalls <= 1
          /\ ~runLog'.transport /\ runLog'.summaries = 0
          /\ last'.rethrown]_vars

\* a run whose validation failed, with the error notification on the webhook
C23_Witness ==
  /\ last.op = "startFailed" /\ last.config = "badWebhook" /\ ~last.validated
  /\ last.rethrown
  /\ runLog.alerts = 1 /\ runLog.alertCalls = 1

\* ---------------------------------------------------------------------------
\* the messages of the run for which an operation was done, and those whose ledger
\* write was attempted or that were skipped
started == {m \in MessageIds : step.done[m] # {}}
settled == {m \in MessageIds : step.done[m] \cap {"record", "skip"} # {}}

\* C24.  Within a run the messages are handled strictly one after another: no
\* operation for a message is done before every earlier message of the batch has had
\* its ledger write attempted or was skipped, so wherever the run is cut off at most
\* one message is started and not yet recorded or skipped; and a ledger row written
\* in the run belongs to a message whose archive and notification steps are done.
C24_StrictlySequential ==
  /\ \A i, j \in 1..Len(Batch) :
       (i < j /\ Batch[j] \in started) => Batch[i] \in settled
  /\ Cardinality(started \ settled) <= 1
  /\ \A m \in MessageIds :
       "record" \in step.done[m] => {"archive", "notify"} \subseteq step.done[m]
  /\ \A m \in recorded(sheet) \ step.base : "notify" \in step.done[m]

\* the run was cut off after the notification of m1 and before its ledger write
C24_Witness ==
  /\ last.op = "cut" /\ pc = "idle"
  /\ step.done["m1"] = {"check", "classify", "archive", "notify"}
  /\ rowsOf(sheet, "m1") = {}

\* ---------------------------------------------------------------------------
\* the two runs have ended and both processed message m
bothTook(m) ==
  \A r \in Triggers : ov.run[r].pc = "done" /\ m \in ov.run[r].took

matchesSome(m) == checkSubjectPattern(Message(m).subject).isMatch

\* the ids of thread t of the mailbox
idsOf(t) == {mailbox[t][k] : k \in 1..Len(mailbox[t])}

\* C26.  Deduplication is keyed on the message id only: the search returns the
\* threads whatever their labels, and a message whose id is not in the ledger and
\* whose subject matches is processed and notified, also when its thread carries the
\* Processed label or an already processed message has the same subject.
C26_KeyedOnIdOnly ==
  /\ pc = "running"
       => \A t \in 1..Min(Len(mailbox), MAX_EMAILS_PER_RUN * 3) :
            \A m \in idsOf(t) : \E i \in 1..Len(Batch) : Batch[i] = m
  /\ (last.op = "handle" /\ ~last.found /\ matchesSome(last.msg)
        /\ ~last.trash /\ ~last.errored /\ ~last.threwInside)
       => (last.called /\ last.matched /\ last.notifyCalled /\ last.ret /\ last.counted)

\* m4 is a reply in the labelled thread of m1, which has the same subject and a
\* ledger row; m4 was processed and notified
C26_Witness ==
  /\ mailbox = << <<"m1", "m4">> >> /\ 1 \in labeled
  /\ rowsOf(sheet, "m1") # {} /\ Message("m1").subject = Message("m4").subject
  /\ last.op = "handle" /\ last.msg = "m4" /\ ~last.found
  /\ last.notifyCalled /\ last.primaries = 1 /\ last.counted
  /\ hist["m1"].deliveredRuns = 0

\* ---------------------------------------------------------------------------
\* C28.  One run of processEmails processes (notifies and records) at most
\* MAX_EMAILS_PER_RUN messages, whatever the number of threads the search returns
\* and of messages in a thread.
C28_AtMostMaxEmailsPerRun ==
  processedCount <= MAX_EMAILS_PER_RUN

\* ---------------------------------------------------------------------------
\* the attachments of the last archive call that are PDF files
pdfs == {i \in 1..Len(aLast.attachments) : aLast.attachments[i].ext = "pdf"}

\* C27.  Only PDF attachments are archived: an attachment that is not a PDF is not
\* written to Drive (its entry of the report has no stored name), and no email
\* subfolder is created for a message without a PDF attachment.
C27_OnlyPdfArchived ==
  (aLast.called /\ ~aLast.threw)
    => /\ \A i \in 1..Len(aLast.attachmentInfo) :
            i \notin pdfs => aLast.attachmentInfo[i].savedName = NoName
       /\ pdfs = {} => (~aLast.created /\ aLast.folder = BaseFolder)

\* ---------------------------------------------------------------------------
\* C29.  Within one markMessageProcessedInSheet call whose write goes through, the
\* cleanup is called exactly when the row count of the sheet after the append
\* (getLastRow, the header row included) exceeds MAX_ROWS + CLEANUP_BATCH_SIZE; what
\* it removes is removed after the new row was appended, in one piece of exactly
\* CLEANUP_BATCH_SIZE rows from the first data row on (nothing, when the cleanup
\* itself failed).  cur is the sheet the call found: the sheet as it was, or the
\* empty sheet of a spreadsheet made anew.
C29_EvictionAfterAppend ==
  [][(last'.markCalled /\ last'.appended /\ last' # last)
       => \E cur \in {sheet, <<>>} :
            LET added == Append(cur, Row(last'.msg, clock))
                rowCount == Len(added) + 1
            IN /\ last'.triggered <=> rowCount > MAX_ROWS + CLEANUP_BATCH_SIZE
               /\ last'.removed = (IF last'.triggered /\ ~last'.cleanupFailed
                                     THEN CLEANUP_BATCH_SIZE ELSE 0)
               /\ sheet' = SubSeq(added, last'.removed + 1, Len(added))]_vars

\* a write on a sheet that migration had filled beyond the limit: the cleanup was
\* called and removed CLEANUP_BATCH_SIZE rows, fewer than the excess
C29_Witness ==
  /\ last.markCalled /\ last.appended /\ last.triggered /\ ~last.cleanupFailed
  /\ last.removed = CLEANUP_BATCH_SIZE
  /\ Len(sheet) = MAX_ROWS + CLEANUP_BATCH_SIZE
  /\ sheet[Len(sheet)].id = last.msg

\* ---------------------------------------------------------------------------
\* C30.  Whenever the cleanup removes rows, every removed row has a timestamp less
\* than or equal to that of every row that stays, in every history of record calls,
\* those with rows imported by migrateProcessedMessagesToSheet included.
C30_EvictsOldest ==
  [][(last'.markCalled /\ last'.removed > 0 /\ last' # last)
       => \A i \in 1..Min(last'.removed, Len(sheet)) :
            \A j \in 1..Len(sheet') : sheet[i].ts <= sheet'[j].ts]_vars

\* the positions of the files named n in folder k, whoever wrote them
filesNamed(k, n) == {j \in 1..Len(drive.files[k]) : drive.files[k][j].name = n}

\* C31: ensureUniqueFilename never returns a name it found taken: every file the
\* last call saved is the only file of its name in its folder, also when the
\* desired name and every numbered candidate up to the probe cap were taken.
C31_ReturnedNameNotTaken ==
  aLast.called
    => \A i \in saved :
         Cardinality(filesNamed(aLast.folder, aLast.attachmentInfo[i].savedName)) = 1

\* the candidate stored name of the attachment at position i of the last call
candidate(i) == generateSimpleFilename(i - 1, aLast.attachments[i], aClock)

\* the original name of the attachment at position i with its invalid characters
\* replaced
sanitized(i) == [aLast.attachments[i] EXCEPT !.stem = replaceInvalid(@)]

\* an earlier attachment of the last call has the original name of the one at i
repeats(i) == \E j \in 1..(i - 1) : aLast.attachments[j] = aLast.attachments[i]

\* the name under which the attachment at position i was stored is its candidate,
\* with at most a probe number or a time added by ensureUniqueFilename
storedFromCandidate(i) ==
  LET name == aLast.attachmentInfo[i].savedName
  IN i \in saved
       => /\ name.stem = candidate(i).stem
          /\ name.ext = candidate(i).ext
          /\ Len(name.sfx) >= Len(candidate(i).sfx)
          /\ SubSeq(name.sfx, 1, Len(candidate(i).sfx)) = candidate(i).sfx

\* C32 as stated: the positional suffix is inserted before the extension exactly
\* for the attachments whose original name repeats that of an earlier attachment
\* of the call; every other attachment keeps its sanitized original name as
\* candidate.
C32_SuffixExactlyForRepeats ==
  (aLast.called /\ aLast.base = "ok")
    => \A i \in 1..Len(aLast.attachments) :
         /\ candidate(i) = (IF repeats(i)
                              THEN [sanitized(i) EXCEPT !.sfx = Append(@, i)]
                              ELSE sanitized(i))
         /\ storedFromCandidate(i)

\* C32 amended: the 1-based position is inserted before the extension for every
\* named attachment but the first of the call, whether or not its name repeats;
\* the first attachment keeps its sanitized original name as candidate.
C32_SuffixForAllButFirst ==
  (aLast.called /\ aLast.base = "ok")
    => \A i \in 1..Len(aLast.attachments) :
         /\ candidate(i) = (IF i > 1
                              THEN [sanitized(i) EXCEPT !.sfx = Append(@, i)]
                              ELSE sanitized(i))
         /\ storedFromCandidate(i)

C32_Witness ==
  /\ aLast.called /\ aLast.base = "ok"
  /\ aLast.attachments = <<Report2, Report>>
  /\ saved = {1, 2}
  /\ aLast.attachmentInfo[1].savedName = Report2
  /\ aLast.attachmentInfo[2].savedName = FileName("report", <<2, 1>>, "pdf")

\* sanitizing the subject of the last call leaves nothing: it is a string of
\* white space only, the empty string included
sanitizesToEmpty ==
  /\ fLast.subject # NoSubject
  /\ \A i \in 1..Len(fLast.subject) : fLast.subject[i] \in WhiteSpace

\* the result of the last call is at most FOLDER_SUBJECT_LENGTH characters long and
\* holds no character that is illegal in a folder name
shortAndLegal ==
  /\ Len(fLast.result) <= FOLDER_SUBJECT_LENGTH
  /\ \A i \in 1..Len(fLast.result) : fLast.result[i] \notin InvalidChars

\* C33 as stated: the result is short and legal, and a subject that sanitizes to
\* the empty string gets the time-derived fallback name instead of the empty
\* string.
C33_EmptyGetsFallback ==
  fLast.called
    => /\ shortAndLegal
       /\ sanitizesToEmpty => fLast.result = Fallback

\* C33 amended: the result is short and legal; the time-derived fallback name is
\* returned exactly when the subject is no string, and a subject that sanitizes to
\* the empty string yields the empty string.
C33_FallbackOnlyOnThrow ==
  fLast.called
    => /\ shortAndLegal
       /\ fLast.result = Fallback <=> fLast.subject = NoSubject
       /\ sanitizesToEmpty => fLast.result = <<>>

C33_Witness ==
  /\ fLast.called
  /\ fLast.subject = <<" ", " ">>
  /\ fLast.result = <<>>

\* C34: after a migrateProcessedMessagesToSheet call that completes, every id of
\* the legacy property store is reported as processed by the sheet, the rows that
\* were there before are unchanged, and the call returns the number of entries it
\* migrated.
C34_MigrationImportsAndCounts ==
  [][(last'.op = "migrate" /\ ops' = ops + 1 /\ ~last'.errored)
       => /\ \A i \in 1..Len(legacy) :
               isMessageProcessedInSheet(sheet', legacy[i].id, "none").value
          /\ Len(sheet') >= Len(sheet)
          /\ SubSeq(sheet', 1, Len(sheet)) = sheet
          /\ last'.returned = <<Len(legacy)>>]_vars

\* C35: a delay step lies between every two consecutive chat-delivery calls of a
\* dispatch: primary to first continuation, continuation to continuation, last
\* unit to follow-up, in both transport modes.
C35_DelayBetweenCalls ==
  dResult.called
    => \A i \in 2..Len(dResult.calls) :
         sleepBefore(dResult.calls[i - 1], dResult.calls[i]) > 0

\* C36: no matching message is lost without a notification: an id that has a row
\* in the ledger which processEmails wrote belongs to a message whose primary
\* notification the chat transport accepted in that run or an earlier one.
C36_RecordedOnlyAfterDelivery ==
  \A m \in MessageIds :
    (rowsOf(sheet, m) # {} /\ ~hist[m].direct) => hist[m].deliveredRuns >= 1

\* the calls of the last dispatch of this kind and part that were accepted
acceptedCalls(kind, part) ==
  {i \in callsOf(kind) : dResult.calls[i].accepted /\ dResult.calls[i].part = part}

\* C37: in one sendSlackNotification call the chat transport accepts the primary
\* notification at most once over both transports, and no continuation part and
\* no follow-up twice, whatever the Web API answers.
C37_NoUnitAcceptedTwice ==
  dResult.called
    => /\ Cardinality(acceptedCalls("primary", 1)) <= 1
       /\ Cardinality(acceptedCalls("followup", 1)) <= 1
       /\ \A p \in 1..Len(dResult.calls) :
            Cardinality(acceptedCalls("continuation", p)) <= 1

C39_OnlyProcessedKeysDeleted ==
  [][(last'.op = "cleanup" /\ ops' = ops + 1)
       => /\ settings' = settings
          /\ sheet' = sheet
          /\ \A i \in 1..Len(legacy') : \E j \in 1..Len(legacy) : legacy'[i] = legacy[j]
          /\ ~last'.errored => (legacy' = <<>> /\ last'.returned = <<Len(legacy)>>)
          /\ last'.errored => last'.returned = <<0>>]_vars

C39_Witness ==
  /\ last.op = "cleanup" /\ ~last.errored
  /\ last.returned = <<2>>
  /\ legacy = <<>>
  /\ settings = SettingKeys
  /\ sheet = <<Row("m2", 0), Row("m0", 0), Row("m1", 0)>>

====
